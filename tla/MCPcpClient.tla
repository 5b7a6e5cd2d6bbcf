----------------------------- MODULE MCPcpClient -----------------------------
(* Instances of PcpClient for TLC: the constants that a .cfg cannot write.  *)
EXTENDS PcpClient

CONSTANTS r1, r2

MCOpOf     == [r \in Request |-> IF r = r1 THEN "map" ELSE "peer"]
MCReaches  == [r \in Request |-> Server]
MCPos      == [f \in Flow |->
                 (CASE f[1] = r1 -> 0 [] f[1] = r2 -> 1 [] OTHER -> 2) * NServers + f[2]]

Plain(f, v, res, life, e) == [key |-> f, announce |-> FALSE, version |-> v,
                              result |-> res, lifetime |-> life, epoch |-> e]
Announcement(e) == [Plain(NoFlow, 0, "success", 0, e) EXCEPT !.announce = TRUE]

Results(res, life) == {Plain(<<r, s>>, 2, x, life, e) :
                          r \in Request, s \in Server, x \in res, e \in Epoch}
Refusals(vs)       == {Plain(NoFlow, v, "unsupp_version", 0, 1) : v \in vs}
Mismatch           == Plain(NoFlow, 2, "address_mismatch", 0, 1)

\* Every kind of answer that leads to another handler.
AnyAnswers    == Results({"success", "no_resources", "not_authorized"}, 2)
                   \cup Refusals(0 .. 1) \cup {Mismatch}
NatPmpAnswers == {Plain(<<r1, 1>>, 0, x, 2, 1) : x \in {"success", "no_resources"}}
                   \cup Refusals({0}) \cup {Announcement(1)}
\* A server that grants, or is short of resources for a while.
GrantAnswers  == Results({"success", "no_resources"}, 3)
\* Everything but a version refusal.
SettlingAnswers == Results({"success", "no_resources", "not_authorized"}, 2)
                     \cup {Mismatch}
Grants        == Results({"success"}, 2)
GrantOrMismatch == Grants \cup {Mismatch}

AllCalls    == {"init", "add_server", "new_flow", "set_lifetime", "set_opt",
                "close_flow", "delete_flow", "terminate"}
PlainCalls  == {"init", "new_flow", "delete_flow"}
NatPmpCalls == {"add_server", "new_flow", "set_opt", "delete_flow"}

Reliable    == {{}}
OneFault    == {{}, {1}}
=============================================================================

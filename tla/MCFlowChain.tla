----------------------------- MODULE MCFlowChain -----------------------------
(* FlowChain from every combination of the fields that a handler looks at.  *)
EXTENDS FlowChain

MCFlows == [state : FlowState \ {"absent"}, timeout : {NoTimer, 0, 1},
            resend_timeout : {1}, retry_count : {0, MRC - 1}, lifetime : {2},
            recv_lifetime : {-1, 0, 3}, recv_result : {"success"},
            buf : {NoBuf, 2}]
MCResults == {"success", "unsupp_version", "no_resources", "not_authorized",
              "malformed_option"}
MCContexts == [present : BOOLEAN, mark : BOOLEAN, version : {0, 2},
               op : {"map", "peer"}, faults : SUBSET (1 .. MaxSends),
               rand : {0, 2047}, msg : [result : MCResults, lifetime : {0, 2}]]
=============================================================================

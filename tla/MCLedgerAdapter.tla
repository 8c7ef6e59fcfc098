--------------------------- MODULE MCLedgerAdapter ---------------------------
(* Instances of the adapter: up to three actions, one of them a key action. *)
EXTENDS LedgerAdapter

CONSTANTS e1, e2, k1

\* Debezium repeats e1; a key action splits the batch into segments.
CleanLogs == { <<e1, e2, e1>>, <<e1, k1>> }

\* Messages Parse refuses, before and after actions.
BadLogs == { <<e1, Bad, e2>>, <<Bad, k1, e1>> }

PairLog == { <<e1, e2>> }
BadBehindAction == { <<e1, Bad>> }
BadAlone == { <<Bad, e1>> }
SingleLog == { <<e1>> }
=============================================================================

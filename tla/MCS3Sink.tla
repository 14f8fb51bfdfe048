------------------------------ MODULE MCS3Sink ------------------------------
(* Three rows of two days, the first day's file stubborn when there is one; *)
(* two destinations; a staging directory of two rows.                      *)
EXTENDS S3Sink

MCDay == [r \in Rows |-> IF r = 1 THEN 1 ELSE 2]
============================================================================

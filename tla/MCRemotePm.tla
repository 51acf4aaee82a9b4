------------------------------ MODULE MCRemotePm -----------------------------
(* RemotePm has no constants: its keys are kinds of keys, its clock the    *)
(* waits that may be over, and its state space is finite as it stands.     *)
EXTENDS RemotePm
=============================================================================

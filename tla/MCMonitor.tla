----------------------------- MODULE MCMonitor -----------------------------
(***************************************************************************)
(* K2HMonitor for two processes.                                           *)
(***************************************************************************)
EXTENDS K2HMonitor
=============================================================================

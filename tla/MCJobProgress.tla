---------------------------- MODULE MCJobProgress ----------------------------
(* One job with two reports, one cancel request, two faults and the page's  *)
(* three reconnects.                                                        *)
EXTENDS JobProgress
=============================================================================

---------------------------- MODULE MCThreadPool ----------------------------
(***************************************************************************)
(* ThreadPool for TLC.                                                     *)
(***************************************************************************)
EXTENDS ThreadPool

\* The semaphore reaches what the list can hold and two units more, which
\* interrupted workers leave behind.
SemLimit == MaxRequests + 2
=============================================================================

--------------------------- MODULE MCServiceWorker ---------------------------
(* An instance of ServiceWorker for TLC. *)
EXTENDS ServiceWorker

CONSTANTS t1, t2

TwoTabs == {t1, t2}

\* Release 1 registers a worker, release 2 is built with one and unregisters it,
\* release 3, built without a worker, unregisters as well.
FirstRegisters == {1}
FirstTwo == {1, 2}
=============================================================================

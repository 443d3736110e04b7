------------------------------ MODULE MCOutbox ------------------------------
(* TLC instances of WebhookOutbox. *)
EXTENDS OutboxFanout, TLC

CONSTANTS w1, w2, e1, e2, h1, h2, p1

TwoWorkers == {w1, w2}
OneWorker  == {w1}
TwoEvents  == {e1, e2}
OneEvent   == {e1}
TwoHooks   == {h1, h2}
OneHook    == {h1}
OneProject == {p1}

InOneProject == [e \in Events |-> p1]
\* One webhook for the project, and one for all projects.
Scopes == [h \in Hooks |-> IF h = h1 THEN p1 ELSE AllProjects]
AllKinds == [h \in Hooks |-> Events]
============================================================================

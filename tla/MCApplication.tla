---------------------------- MODULE MCApplication ----------------------------
(* Application for TLC. The first configurations vary the time-outs around *)
(* their bounds (1s is 2 half seconds), the second the choice of provider. *)
EXTENDS Application

CONSTANT write

Good == [envsubst |-> TRUE, timeout |-> [t \in Timeout |-> 20],
         providers |-> {"basic"}, audiences |-> FALSE, authHeader |-> TRUE,
         permissive |-> FALSE]

MCConfig ==
    {[Good EXCEPT !.timeout = f] : f \in [Timeout -> {0, 1, 2, 1200, 1201}]} \cup
    {[Good EXCEPT !.providers = p, !.audiences = a, !.permissive = b] :
        p \in SUBSET Provider, a \in BOOLEAN, b \in BOOLEAN} \cup
    {[Good EXCEPT !.envsubst = FALSE], [Good EXCEPT !.authHeader = FALSE]}

-----------------------------------------------------------------------------
\* "Shutdown within 30 seconds maximum" (.specs/PRD.md:352) and "Maximum
\* shutdown time: 30 seconds" (.specs/PRD.md:731): after the signal was
\* caught the process waits for no more than 30 seconds, which is one tick
\* with the deadlines of Close, 30 s and 60 s, as 1 and 2.
ShutdownWithin30 == spent <= 1
=============================================================================

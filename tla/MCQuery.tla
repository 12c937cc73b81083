------------------------------ MODULE MCQuery ------------------------------
(* The engine's query layer on two runs that share a hot cache.            *)
EXTENDS NameserverQuery, TLC

CONSTANTS t1, t2, t3, r1, r2, sick, dead, well, twin, q1, q2, q3, k1

Goroutines == t1 :> r1 @@ t2 :> r1 @@ t3 :> r2
OneKey == [r \in Runs |-> k1]
Address == [s \in Servers |-> IF s = twin THEN well ELSE s]
Health == [a \in Addrs |-> CASE a = well -> {"answer"}
                              [] a = dead -> {"hard"}
                              [] OTHER -> Results]
Ask(s, q) == [server |-> s, q |-> q]
Plan(a, b, c) == t1 :> a @@ t2 :> b @@ t3 :> c

\* One question of two threads to a good server, and different ones; questions
\* to a bad one: by two threads of a run, by two runs, one after the other (q1
\* is a plain SOA query, q2 a diagnostic probe); one address too many.
Small ==
    { Plan(<<Ask(well, q1)>>, <<Ask(well, q1)>>, <<>>),
      Plan(<<Ask(well, q1)>>, <<>>, <<Ask(twin, q3), Ask(twin, q1)>>),
      Plan(<<Ask(sick, q3)>>, <<Ask(sick, q2)>>, <<>>),
      Plan(<<Ask(dead, q1)>>, <<>>, <<Ask(dead, q1)>>),
      Plan(<<Ask(sick, q3), Ask(sick, q1), Ask(sick, q3)>>, <<>>, <<>>),
      Plan(<<Ask(sick, q2)>>, <<Ask(well, q1)>>, <<>>) }
============================================================================

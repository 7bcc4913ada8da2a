---------------------------- MODULE MCLifecycle ----------------------------
(* Durations of four bits with a second of three: a number of seconds can   *)
(* fit, wrap to a negative duration and wrap to a positive one.             *)
EXTENDS ServiceLifecycle, TLC

ReqSymmetry == Permutations(Req)

Complete == {"PROVIDER_ADDR", "DATABASE_URL"}

With(kind, n) == [kind |-> kind, n |-> n, env |-> Complete]

\* Every interval in a complete environment, and the default one in others.
MCSetting ==
  {With("seconds", n) : n \in {-1, 0, 2, 3, 6}}
  \cup {With("duration", n) : n \in {-1, 1}}
  \cup {[With("other", 0) EXCEPT !.env = env] :
          env \in {Complete, {"PROVIDER_ADDR", "POSTGRES_USER", "POSTGRES_DB"},
                   {"PROVIDER_ADDR", "POSTGRES_USER"}, {"DATABASE_URL"}}}

OneSetting == {With("other", 0)}
=============================================================================

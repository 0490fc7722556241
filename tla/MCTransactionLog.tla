-------------------------- MODULE MCTransactionLog --------------------------
(***************************************************************************)
(* Two threads append to one log: a record and a changed version of it,    *)
(* the same key for two contents and for two households, a record offered  *)
(* twice under two keys, a retry that pins the commit time, and the        *)
(* batches append refuses.                                                 *)
(***************************************************************************)
EXTENDS TransactionLog

CONSTANTS t1, t2

MCSchema == {"opportunity", "feedback"}
MCKey    == {"k1", "k2"}
MCTime   == {1, 2}

R(id, household, schema, body) ==
  [id |-> id, household |-> household, trace |-> household, schema |-> schema, body |-> body]

a  == R(1, "h1", "opportunity", "x")
a2 == R(1, "h1", "opportunity", "y")
b  == R(2, "h1", "feedback", "x")
c  == R(3, "h2", "feedback", "x")

MCRecord == {a, a2, b, c}

MCRequest ==
  {[records |-> q[1], key |-> q[2], at |-> q[3]] :
     q \in {<< <<a>>, "k1", NoTime >>, << <<a>>, "k1", 1 >>, << <<a2>>, "k1", 1 >>,
            << <<b, a>>, "k2", 1 >>, << <<b>>, "k1", 2 >>, << <<c>>, "k1", 1 >>,
            << <<b, c>>, "k2", 1 >>, << <<a, a2>>, "k1", 1 >>, << << >>, "k1", 1 >>}}
=============================================================================

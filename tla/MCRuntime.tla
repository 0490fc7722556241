----------------------------- MODULE MCRuntime -----------------------------
(***************************************************************************)
(* An event with two subscribers, and a handler that serves an event and a *)
(* command; the key of a message is used again for another message.        *)
(***************************************************************************)
EXTENDS Runtime

first  == <<"a">>
second == <<"b">>
k      == <<"k">>

MCName == {first, second}
MCRank == [n \in MCName |-> IF n = first THEN 1 ELSE 2]

Event(name, max)   == [kind |-> "event", on |-> "seen", name |-> name, maxAttempts |-> max]
Command(name, max) == [kind |-> "command", on |-> "do", name |-> name, maxAttempts |-> max]

(* Two subscribers, one of them with a retry.                              *)
MCSubscribers == {Event(first, 1), Event(second, 2)}

(* One handler name for an event and a command.                           *)
MCSharedName == {Event(first, 2), Command(first, 1)}

M(id, kind, name, household) ==
  [id |-> id, kind |-> kind, name |-> name, household |-> household,
   trace |-> household, key |-> k]

event   == M(1, "event", "seen", "h1")
other   == M(2, "event", "seen", "h1")
command == M(3, "command", "do", "h1")

MCMessage   == {event, other, command}
MCEvents    == {event, other}
MCDelivered == {event}
MCPair      == {event, command}

(* A record's id is cut from the context the runtime gives the handler,    *)
(* and the record is stamped with the logical time.  The second handler    *)
(* has nothing to write for commands.                                      *)
R(m, household, id, body) ==
  [id |-> id, household |-> household, trace |-> m.trace, schema |-> "r", body |-> body]

MCRecords(c) ==
  IF c.handler = second /\ c.message.kind = "command" THEN << >>
  ELSE <<R(c.message, c.message.household, <<c.message.id, c.handler, c.attempt>>, c.now)>>

MCRecord ==
  {R(m, m.household, <<m.id, n, i>>, t) : m \in MCMessage, n \in MCName, i \in 1..2, t \in Time}

MCKey == {<<"handler">> \o n \o k : n \in MCName}
MCTime == {1, 2}
MCSchema == {"r"}
MCManifest == {[at |-> 1, seed |-> 7]}

(* Handlers whose output depends on the message alone.                     *)
MCStableRecords(c) == <<R(c.message, c.message.household, <<c.message.id, c.handler>>, "x")>>

MCStableRecord ==
  {R(m, m.household, <<m.id, n>>, "x") : m \in MCMessage, n \in MCName}
=============================================================================

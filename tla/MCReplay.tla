------------------------------ MODULE MCReplay ------------------------------
(***************************************************************************)
(* An input log of up to five records: two messages in the wrong order, a  *)
(* third that has the sequence number and the key of the first, one of a   *)
(* later schema, and a record that is no message.                          *)
(***************************************************************************)
EXTENDS Replay

handler == <<"a">>

MCName == {handler}
MCRank == [n \in MCName |-> 1]
Event(max) == [kind |-> "event", on |-> "seen", name |-> handler, maxAttempts |-> max]
MCOnce     == {Event(1)}
MCRetried  == {Event(2)}

MCLogical == {[at |-> 1, seed |-> 7]}
MCVersion == {"v1", "v2"}
MCTime    == {1, 2}

M(id, key, seqNo, schemaVersion) ==
  [id |-> id, kind |-> "event", name |-> "seen", household |-> "h", trace |-> "t",
   key |-> key, seqNo |-> seqNo, schemaVersion |-> schemaVersion]

late  == M(1, <<"k">>, 2, "1.0.0")
early == M(2, <<"l">>, 1, "1.0.0")
other == M(3, <<"k">>, 2, "1.0.0")
newer == M(4, <<"m">>, 3, "1.1.0")

MCMessage == {late, early, other, newer}

R(id, schema, body) ==
  [id |-> id, household |-> "h", trace |-> "t", schema |-> schema, body |-> body]

Input(m) == R(<<m.id>>, "message", m)

MCSchema == {"message", "note", "output"}

Fed(record) == [records |-> <<record>>, key |-> record.id, at |-> 1]

MCFeed    == {Fed(Input(m)) : m \in MCMessage} \cup {Fed(R(<<5>>, "note", [text |-> "x"]))}
MCTwo     == {Fed(Input(late)), Fed(Input(early))}
MCOne     == {Fed(Input(late))}

(* The ids of what a handler writes are cut from its context.              *)
MCRecords(c) == <<R(<<c.message.id, c.handler, c.attempt>>, "output", [by |-> c.versions, at |-> c.now])>>

MCRecord ==
  {feed.records[1] : feed \in MCFeed} \cup
  {R(<<m.id, handler, i>>, "output", [by |-> v, at |-> t]) :
     m \in MCMessage, i \in 1..2, v \in MCVersion, t \in MCTime}

MCKey == {feed.key : feed \in MCFeed} \cup {<<"handler">> \o handler \o m.key : m \in MCMessage}
=============================================================================

----------------------------- MODULE MCMigrate -----------------------------
(***************************************************************************)
(* Migrate on every database made of a few rows: a DM, a space and a portal *)
(* with an invalid id, up to two message rows that may belong together, be *)
(* without an id or a sender, or lie in a portal that is not there, one    *)
(* reaction, one puppet and one account.                                   *)
(***************************************************************************)
EXTENDS Migrate

CONSTANTS Ann, Bob \* two Matrix users

Portal(id, receiver, kind) == [id |-> id, receiver |-> receiver, kind |-> kind]
DM == Portal("dm:1", "gAnn", "dm")
Space == Portal("space:1", None, "space")
Invalid == Portal("1", None, "invalid")

Message(mxid, id, chat, receiver, sender, index, text) ==
  [mxid |-> mxid, id |-> id, chat |-> chat, receiver |-> receiver,
   sender |-> sender, index |-> index, text |-> text]

FirstRows ==
  {Message("$1", id, "dm:1", "gAnn", sender, 0, text) :
     id \in {"m", None}, sender \in {"gAnn", None}, text \in BOOLEAN}
  \cup {Message("$1", "m", chat, None, "gAnn", 0, FALSE) : chat \in {"space:1", "1"}}

SecondRows ==
  {Message("$2", "m", "dm:1", "gAnn", sender, 1, FALSE) : sender \in {"gAnn", None}}
  \cup {Message("$2", "m", "space:1", None, "gAnn", 0, TRUE)}

Reactions ==
  {[msg |-> "m", chat |-> p.id, receiver |-> p.receiver, sender |-> "gAnn",
    emoji |-> "+"] : p \in {DM, Space, Invalid}}
  \cup {[msg |-> id, chat |-> "dm:1", receiver |-> "gAnn", sender |-> "gAnn",
         emoji |-> None] : id \in {"m", None}}

Accounts ==
  {[mxid |-> Ann, gcid |-> "gAnn", cookies |-> c] : c \in {"full", "partial", "invalid", None}}
  \cup {[mxid |-> Ann, gcid |-> None, cookies |-> "full"]}

AtMostOne(S) == {{}} \cup {{x} : x \in S}

MCSources ==
  {s \in [portals : {{}, {DM}, {DM, Space, Invalid}},
          puppets : AtMostOne([id : {"gAnn"}, owner : {Ann, Bob}]),
          messages : {a \cup b : a \in AtMostOne(FirstRows), b \in AtMostOne(SecondRows)},
          reactions : AtMostOne(Reactions),
          users : AtMostOne(Accounts)] :
     PythonKeys(s)}
=============================================================================

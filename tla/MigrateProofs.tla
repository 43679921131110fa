---------------------------- MODULE MigrateProofs ----------------------------
(***************************************************************************)
(* Proofs about Migrate, for every source that has the keys and the types  *)
(* of the Python schema, and any number of runs and of rows of the bridge. *)
(* The seven migrators are one step with a number: migrator k takes some   *)
(* of its Python rows, which depends on the tables before its own, and     *)
(* puts one target row for each into its table.  So a table is empty until *)
(* its migrator has run and holds exactly these rows afterwards, in the    *)
(* transaction as in the target.                                           *)
(***************************************************************************)
EXTENDS Migrate, FiniteSetTheorems, WellFoundedInduction, TLAPS

(***************************************************************************)
(* assignPartIDs: no two rows of one message get the same part.            *)
(***************************************************************************)
Below(G, m) == {n \in G : n.index < m.index}

Ranked(G) ==
  /\ IsFiniteSet(G)
  /\ \A n \in G : n.index \in Int /\ n.text \in BOOLEAN
  /\ \A m, n \in G : m.index = n.index => m = n

(* A finite group has a row with the lowest index: the rows below a row    *)
(* are a finite set, and of these sets one is minimal.                     *)
LEMMA FirstExists ==
  ASSUME NEW G, Ranked(G), G # {}
  PROVE  \E n \in G : \A o \in G : n.index <= o.index
  <1> DEFINE T == {Below(G, m) : m \in G}
  <1>1. IsWellFoundedOn(StrictSubsetOrdering(G), FiniteSubsetsOf(G))
    BY FS_StrictSubsetOrderingWellFounded
  <1>2. \A m \in G : Below(G, m) \in SUBSET G
    BY DEF Below
  <1>3. FiniteSubsetsOf(G) = SUBSET G
    BY FS_FiniteSubsetsOfFinite DEF Ranked
  <1>4. T \subseteq FiniteSubsetsOf(G) /\ T # {}
    BY <1>2, <1>3
  <1> HIDE DEF T
  <1>5. PICK S \in T : \A R \in T : ~ (<<R, S>> \in StrictSubsetOrdering(G))
    BY <1>1, <1>4, WFMin
  <1>6. PICK n \in G : S = Below(G, n)
    BY <1>5 DEF T
  <1>7. ASSUME NEW o \in G, o.index < n.index
        PROVE  FALSE
    <2>1. Below(G, o) \subseteq Below(G, n)
      BY <1>7 DEF Below, Ranked
    <2>2. o \in Below(G, n) /\ o \notin Below(G, o)
      BY <1>7 DEF Below, Ranked
    <2>3. <<Below(G, o), Below(G, n)>> \in StrictSubsetOrdering(G)
      BY <1>2, <2>1, <2>2 DEF StrictSubsetOrdering
    <2>4. Below(G, o) \in T
      BY DEF T
    <2> QED
      BY <1>5, <1>6, <2>3, <2>4
  <1> QED
    BY <1>7 DEF Ranked

(* The rank of a row grows with its index.                                 *)
LEMMA RankGrows ==
  ASSUME NEW G, Ranked(G), NEW m \in G, NEW o \in G, m.index < o.index
  PROVE  /\ Cardinality(Below(G, m)) \in Nat /\ Cardinality(Below(G, o)) \in Nat
         /\ Cardinality(Below(G, m)) < Cardinality(Below(G, o))
  <1>1. IsFiniteSet(G) /\ Below(G, o) \in SUBSET G
    BY DEF Ranked, Below
  <1>2. IsFiniteSet(Below(G, o))
    BY <1>1, FS_Subset
  <1>3. Below(G, m) \in SUBSET Below(G, o) /\ m \in Below(G, o) /\ m \notin Below(G, m)
    BY DEF Below, Ranked
  <1>4. /\ IsFiniteSet(Below(G, m))
        /\ Cardinality(Below(G, m)) <= Cardinality(Below(G, o))
        /\ Cardinality(Below(G, o)) # Cardinality(Below(G, m))
    BY <1>2, <1>3, FS_Subset
  <1>5. Cardinality(Below(G, m)) \in Nat /\ Cardinality(Below(G, o)) \in Nat
    BY <1>2, <1>4, FS_CardinalityType
  <1> QED
    BY <1>4, <1>5

(* The parts of two rows of one group differ.                              *)
LEMMA PartsDiffer ==
  ASSUME NEW G, Ranked(G), NEW x \in G, NEW y \in G, x.index < y.index
  PROVE  PartID(G, x) # PartID(G, y)
  <1> DEFINE first == CHOOSE n \in G : \A o \in G : n.index <= o.index
             rx == Cardinality(Below(G, x))
             ry == Cardinality(Below(G, y))
  <1>1. first \in G /\ \A o \in G : first.index <= o.index
    <2>1. \E n \in G : \A o \in G : n.index <= o.index
      BY FirstExists
    <2> QED
      BY <2>1
  <1>2. rx \in Nat /\ ry \in Nat /\ rx < ry /\ y # first
    BY <1>1, RankGrows DEF Ranked
  <1>3. Cardinality(G) # 1
    <2>1. \A S : IsFiniteSet(S) => (Cardinality(S) = 1 <=> \E z : S = {z})
      BY FS_Singleton
    <2> QED
      BY <1>2, <2>1 DEF Ranked
  <1>4. x # first => rx >= 1
    <2>1. SUFFICES ASSUME x # first
                   PROVE  rx >= 1
      OBVIOUS
    <2>2. first.index < x.index
      BY <1>1, <2>1 DEF Ranked
    <2>3. Cardinality(Below(G, first)) \in Nat /\ Cardinality(Below(G, first)) < rx
      BY <1>1, <2>2, RankGrows
    <2> QED
      BY <1>2, <2>3
  <1>5. /\ PartID(G, x) = IF first.text /\ x = first THEN -1
                          ELSE IF first.text THEN rx - 1 ELSE rx
        /\ PartID(G, y) = IF first.text THEN ry - 1 ELSE ry
    BY <1>2, <1>3 DEF PartID, TextPart, Below
  <1> HIDE DEF first, rx, ry
  <1> QED
    BY <1>2, <1>4, <1>5

(***************************************************************************)
(* The migrators.                                                          *)
(***************************************************************************)
Order == <<"portals", "ghosts", "messages", "reactions", "users", "logins", "places">>

Owners == {u \in src.users : u.gcid # None /\ u.cookies # None}
DMs == {p \in src.portals : p.kind = "dm"}

(* The rows that migrator k takes when the tables before its own are t's.  *)
Taken(t, k) ==
  CASE k = 1 -> {p \in src.portals : p.kind # "invalid"}
    [] k = 2 -> src.puppets
    [] k = 3 -> {m \in src.messages : /\ m.id # None /\ HasPortal(t, m.chat, m.receiver)
                                      /\ m.sender # None /\ m.sender \in t.ghosts}
    [] k = 4 -> {r \in src.reactions :
                   /\ r.msg # None /\ r.sender # None /\ r.emoji # None
                   /\ FirstRow(r) # {}
                   /\ HasMessagePart(t, r.msg, ReactionPart(r), r.receiver)
                   /\ HasPortal(t, r.chat, r.receiver)
                   /\ r.sender \in t.ghosts}
    [] k = 5 -> src.users
    [] k = 6 -> {u \in Owners : u.cookies # "invalid"}
    [] k = 7 -> {p \in DMs : /\ OwnerOf(p) # {} /\ \E l \in t.logins : l.id = p.receiver
                             /\ HasPortal(t, p.id, p.receiver)}

Row(k, x) ==
  CASE k = 1 -> x
    [] k = 2 -> x.id
    [] k = 3 -> MessageRow(x)
    [] k = 4 -> ReactionRow(x)
    [] k = 5 -> UserRow(x)
    [] k = 6 -> LoginRow(x)
    [] k = 7 -> PlaceRow(x)

Rows(t, k) == {Row(k, x) : x \in Taken(t, k)}

Skipped(t, k) ==
  CASE k = 1 -> src.portals \ Taken(t, 1)
    [] k = 2 -> {}
    [] k = 3 -> src.messages \ Taken(t, 3)
    [] k = 4 -> src.reactions \ Taken(t, 4)
    [] k = 5 -> {p \in src.puppets : p.owner # None /\ \A u \in src.users : u.mxid # p.owner}
    [] k = 6 -> {u \in Owners : u.cookies \in {"invalid", "partial"}}
    [] k = 7 -> DMs \ Taken(t, 7)

(* The tables of the migrators before n hold their rows, the others none;  *)
(* the users have others besides.                                          *)
Filled(t, n) ==
  /\ t = [x \in Tables |-> t[x]]
  /\ \A k \in 1..7 :
       IF k = 5 THEN n > 5 => Rows(t, 5) \subseteq t.users
       ELSE t[Order[k]] = IF n > k THEN Rows(t, k) ELSE {}

Told(t, n) == \A k \in 1..7 : n > k => \A x \in Skipped(t, k) : <<Order[k], x>> \in warned

TargetOK == IF migrated THEN Filled(target, 8) ELSE Filled(target, 1)

TxnOK ==
  step > 0 =>
    /\ Filled(txn, IF migrated THEN 8 ELSE step) /\ Told(txn, step)
    /\ IF migrated THEN txn = target
       ELSE txn.users = target.users \cup (IF step > 5 THEN Rows(txn, 5) ELSE {})
    /\ opts.force \/ ~HasData(target)

CommittedOK == outcome = "committed" => migrated /\ Told(target, 8)

IInv == TypeOK /\ TargetOK /\ TxnOK /\ CommittedOK /\ SourceAlwaysFits

Migrator(k) == Insert(k, Order[k], [x \in Taken(txn, k) |-> Row(k, x)], Skipped(txn, k))

LEMMA OrderFacts ==
  /\ Order[1] = "portals" /\ Order[2] = "ghosts" /\ Order[3] = "messages"
  /\ Order[4] = "reactions" /\ Order[5] = "users" /\ Order[6] = "logins"
  /\ Order[7] = "places"
  /\ \A k \in 1..7 : Order[k] \in Tables
  /\ \A j, k \in 1..7 : j # k => Order[j] # Order[k]
  /\ Tables = {Order[k] : k \in 1..7}
  BY DEF Order, Tables

(* What the actions of the model are, by number.                           *)
LEMMA Migrators ==
  /\ MigratePortals => Migrator(1)
  /\ MigrateGhosts => Migrator(2)
  /\ MigrateMessages => Migrator(3)
  /\ MigrateReactions => Migrator(4)
  /\ MigrateUsers => Migrator(5)
  /\ MigrateUserLogins => Migrator(6)
  /\ MigrateUserPortals => Migrator(7)
  <1>1. /\ Order[1] = "portals" /\ Order[2] = "ghosts" /\ Order[3] = "messages"
        /\ Order[4] = "reactions" /\ Order[5] = "users" /\ Order[6] = "logins"
        /\ Order[7] = "places"
    BY OrderFacts
  <1>2. MigratePortals => Migrator(1)
    BY <1>1 DEF MigratePortals, Migrator, Taken, Row, Skipped
  <1>3. MigrateGhosts => Migrator(2)
    BY <1>1 DEF MigrateGhosts, Migrator, Taken, Row, Skipped
  <1>4. MigrateMessages => Migrator(3)
    BY <1>1 DEF MigrateMessages, Migrator, Taken, Row, Skipped
  <1>5. MigrateReactions => Migrator(4)
    BY <1>1 DEF MigrateReactions, Migrator, Taken, Row, Skipped
  <1>6. MigrateUsers => Migrator(5)
    BY <1>1 DEF MigrateUsers, Migrator, Taken, Row, Skipped
  <1>7. MigrateUserLogins => Migrator(6)
    BY <1>1 DEF MigrateUserLogins, Migrator, Taken, Row, Skipped, Owners
  <1>8. MigrateUserPortals => Migrator(7)
    BY <1>1 DEF MigrateUserPortals, Migrator, Taken, Row, Skipped, DMs
  <1> QED
    BY <1>2, <1>3, <1>4, <1>5, <1>6, <1>7, <1>8

(* What a migrator takes and skips depends on the tables before its own,   *)
(* and not on the users.                                                   *)
LEMMA TakenFrame ==
  ASSUME NEW t, NEW u, NEW k \in 1..7,
         \A j \in 1..(k - 1) : j # 5 => u[Order[j]] = t[Order[j]]
  PROVE  Taken(u, k) = Taken(t, k) /\ Skipped(u, k) = Skipped(t, k) /\ Rows(u, k) = Rows(t, k)
  <1>1. Taken(u, k) = Taken(t, k)
    <2>1. CASE k \in {1, 2, 5, 6}
      BY <2>1 DEF Taken
    <2>2. CASE k = 3
      <3>1. u.portals = t.portals /\ u.ghosts = t.ghosts
        <4>1. 1 \in 1..(k - 1) /\ 2 \in 1..(k - 1)
          BY <2>2
        <4> QED
          BY <4>1, OrderFacts
      <3> QED
        BY <2>2, <3>1 DEF Taken, HasPortal
    <2>3. CASE k = 4
      <3>1. u.portals = t.portals /\ u.ghosts = t.ghosts /\ u.messages = t.messages
        <4>1. 1 \in 1..(k - 1) /\ 2 \in 1..(k - 1) /\ 3 \in 1..(k - 1)
          BY <2>3
        <4> QED
          BY <4>1, OrderFacts
      <3> QED
        BY <2>3, <3>1 DEF Taken, HasPortal, HasMessagePart
    <2>4. CASE k = 7
      <3>1. u.portals = t.portals /\ u.logins = t.logins
        <4>1. 1 \in 1..(k - 1) /\ 6 \in 1..(k - 1)
          BY <2>4
        <4> QED
          BY <4>1, OrderFacts
      <3> QED
        BY <2>4, <3>1 DEF Taken, HasPortal
    <2> QED
      BY <2>1, <2>2, <2>3, <2>4
  <1>2. Skipped(u, k) = Skipped(t, k)
    <2>1. CASE k \in {2, 5, 6}
      BY <2>1 DEF Skipped
    <2>2. CASE k = 1
      BY <1>1, <2>2 DEF Skipped
    <2>3. CASE k = 3
      BY <1>1, <2>3 DEF Skipped
    <2>4. CASE k = 4
      BY <1>1, <2>4 DEF Skipped
    <2>5. CASE k = 7
      BY <1>1, <2>5 DEF Skipped
    <2> QED
      BY <2>1, <2>2, <2>3, <2>4, <2>5
  <1> QED
    BY <1>1, <1>2 DEF Rows

(***************************************************************************)
(* The keys.                                                               *)
(***************************************************************************)
LEMMA SourceFacts ==
  ASSUME src \in Sources
  PROVE  PythonKeys(src) /\ MessageTypes(src)
  BY MigrateAssumption

LEMMA GroupRanked ==
  ASSUME src \in Sources, NEW id, NEW chat, NEW receiver, id # None
  PROVE  Ranked(Group(id, chat, receiver))
  <1>1. IsFiniteSet(src.messages) /\ Group(id, chat, receiver) \in SUBSET src.messages
    BY SourceFacts DEF MessageTypes, Group
  <1>2. IsFiniteSet(Group(id, chat, receiver))
    BY <1>1, FS_Subset
  <1>3. \A n \in Group(id, chat, receiver) : n.index \in Int /\ n.text \in BOOLEAN
    BY <1>1, SourceFacts DEF MessageTypes
  <1>4. \A m, n \in Group(id, chat, receiver) : m.index = n.index => m = n
    BY SourceFacts DEF PythonKeys, Group
  <1> QED
    BY <1>2, <1>3, <1>4 DEF Ranked

(* Two rows of one message have the same chat and different parts.         *)
LEMMA MessageParts ==
  ASSUME src \in Sources, NEW m \in src.messages, NEW n \in src.messages,
         m.id = n.id, m.id # None, m.receiver = n.receiver
  PROVE  /\ m.chat = n.chat
         /\ MessageRow(m).part = MessageRow(n).part => m = n
  <1>1. m.chat = n.chat /\ (m.index = n.index => m = n)
    BY SourceFacts DEF PythonKeys
  <1> DEFINE G == Group(m.id, m.chat, m.receiver)
  <1>2. m \in G /\ n \in G
    BY <1>1 DEF Group
  <1>3. MessageRow(m).part = PartID(G, m) /\ MessageRow(n).part = PartID(G, n)
    BY <1>1 DEF MessageRow
  <1>4. Ranked(G)
    BY GroupRanked
  <1> HIDE DEF G
  <1>5. m.index \in Int /\ n.index \in Int
    BY <1>2, <1>4 DEF Ranked
  <1>6. m.index < n.index \/ n.index < m.index \/ m.index = n.index
    BY <1>5
  <1> QED
    BY <1>1, <1>2, <1>3, <1>4, <1>6, PartsDiffer

(* The row a reaction was made on: the one with index 0.                   *)
LEMMA FirstOf ==
  ASSUME src \in Sources, NEW r, r.msg # None, NEW f \in FirstRow(r)
  PROVE  /\ f \in src.messages /\ f.id = r.msg /\ f.chat = r.chat /\ f.receiver = r.receiver
         /\ f.index = 0
         /\ ReactionPart(r) = MessageRow(f).part
  <1>1. /\ f \in src.messages /\ f.id = r.msg /\ f.chat = r.chat /\ f.receiver = r.receiver
        /\ f.index = 0
    BY DEF FirstRow, Group
  <1>2. \A g \in FirstRow(r) : g = f
    BY <1>1, SourceFacts DEF FirstRow, Group, PythonKeys
  <1>3. (CHOOSE m \in FirstRow(r) : TRUE) = f
    <2>1. (CHOOSE m \in FirstRow(r) : TRUE) \in FirstRow(r)
      OBVIOUS
    <2> QED
      BY <1>2, <2>1
  <1>4. ReactionPart(r) = PartID(Group(r.msg, r.chat, r.receiver), f)
    BY <1>3 DEF ReactionPart
  <1>5. MessageRow(f).part = PartID(Group(f.id, f.chat, f.receiver), f)
    BY DEF MessageRow
  <1>6. Group(f.id, f.chat, f.receiver) = Group(r.msg, r.chat, r.receiver)
    BY <1>1
  <1> QED
    BY <1>1, <1>4, <1>5, <1>6

LEMMA KeysDiffer ==
  ASSUME src \in Sources, NEW t, NEW k \in 1..7, NEW x \in Taken(t, k), NEW y \in Taken(t, k),
         x # y
  PROVE  Key(Order[k], Row(k, x)) # Key(Order[k], Row(k, y))
  <1> USE SourceFacts, OrderFacts
  <1>1. CASE k = 1
    <2>1. x \in src.portals /\ y \in src.portals
      BY <1>1 DEF Taken
    <2>2. x.id # y.id \/ x.receiver # y.receiver
      BY <2>1 DEF PythonKeys
    <2> QED
      BY <1>1, <2>2 DEF Row, Key
  <1>2. CASE k = 2
    <2>1. x.id # y.id
      BY <1>2 DEF Taken, PythonKeys
    <2> QED
      BY <1>2, <2>1 DEF Row, Key
  <1>3. CASE k = 3
    <2>1. x \in src.messages /\ y \in src.messages /\ x.id # None /\ y.id # None
      BY <1>3 DEF Taken
    <2>2. ~(x.id = y.id /\ x.receiver = y.receiver /\ MessageRow(x).part = MessageRow(y).part)
      BY <2>1, MessageParts
    <2>3. \A m : MessageRow(m).id = m.id /\ MessageRow(m).receiver = m.receiver
      BY DEF MessageRow
    <2>4. Key(Order[k], Row(k, x)) = <<x.receiver, x.id, MessageRow(x).part>>
          /\ Key(Order[k], Row(k, y)) = <<y.receiver, y.id, MessageRow(y).part>>
      BY <1>3, <2>3 DEF Row, Key
    <2> QED
      BY <2>2, <2>4
  <1>4. CASE k = 4
    <2>1. /\ x \in src.reactions /\ x.msg # None /\ FirstRow(x) # {}
          /\ y \in src.reactions /\ y.msg # None /\ FirstRow(y) # {}
      BY <1>4 DEF Taken
    <2>2. ~(x.msg = y.msg /\ x.chat = y.chat /\ x.receiver = y.receiver
            /\ x.sender = y.sender /\ x.emoji = y.emoji)
      BY <2>1 DEF PythonKeys
    <2>3. x.msg = y.msg /\ x.receiver = y.receiver => x.chat = y.chat
      <3>1. PICK f \in FirstRow(x), g \in FirstRow(y) : TRUE
        BY <2>1
      <3>2. /\ f \in src.messages /\ f.id = x.msg /\ f.chat = x.chat /\ f.receiver = x.receiver
            /\ g \in src.messages /\ g.id = y.msg /\ g.chat = y.chat /\ g.receiver = y.receiver
        BY DEF FirstRow, Group
      <3> QED
        BY <2>1, <3>2 DEF PythonKeys
    <2>4. \A r : /\ ReactionRow(r).msg = r.msg /\ ReactionRow(r).receiver = r.receiver
                 /\ ReactionRow(r).sender = r.sender /\ ReactionRow(r).emoji = r.emoji
      BY DEF ReactionRow
    <2>5. \A r : Key(Order[k], Row(k, r))
                   = <<r.receiver, r.msg, ReactionRow(r).part, r.sender, r.emoji>>
      BY <1>4, <2>4 DEF Row, Key
    <2> QED
      BY <2>2, <2>3, <2>5
  <1>5. CASE k = 5
    <2>1. x.mxid # y.mxid
      BY <1>5 DEF Taken, PythonKeys
    <2> QED
      BY <1>5, <2>1 DEF Row, Key, UserRow
  <1>6. CASE k = 6
    <2>1. x.gcid # y.gcid
      BY <1>6 DEF Taken, Owners, PythonKeys
    <2> QED
      BY <1>6, <2>1 DEF Row, Key, LoginRow
  <1>7. CASE k = 7
    <2>1. x.id # y.id \/ x.receiver # y.receiver
      BY <1>7 DEF Taken, DMs, PythonKeys
    <2>2. \A p : PlaceRow(p).portal = p.id /\ PlaceRow(p).receiver = p.receiver
      BY DEF PlaceRow
    <2> QED
      BY <1>7, <2>1, <2>2 DEF Row, Key
  <1> QED
    BY <1>1, <1>2, <1>3, <1>4, <1>5, <1>6, <1>7

(***************************************************************************)
(* The references.                                                         *)
(***************************************************************************)
LEMMA FilledTables ==
  ASSUME NEW t, NEW n \in 1..8, Filled(t, n)
  PROVE  /\ t.portals = IF n > 1 THEN Rows(t, 1) ELSE {}
         /\ t.ghosts = IF n > 2 THEN Rows(t, 2) ELSE {}
         /\ t.messages = IF n > 3 THEN Rows(t, 3) ELSE {}
         /\ t.reactions = IF n > 4 THEN Rows(t, 4) ELSE {}
         /\ n > 5 => Rows(t, 5) \subseteq t.users
         /\ t.logins = IF n > 6 THEN Rows(t, 6) ELSE {}
         /\ t.places = IF n > 7 THEN Rows(t, 7) ELSE {}
  <1>1. /\ \A k \in {1, 2, 3, 4, 6, 7} : t[Order[k]] = IF n > k THEN Rows(t, k) ELSE {}
        /\ n > 5 => Rows(t, 5) \subseteq t.users
    BY DEF Filled
  <1> QED
    BY <1>1, OrderFacts

LEMMA References ==
  ASSUME src \in Sources, NEW t, NEW n \in 1..8, Filled(t, n)
  PROVE  ReferencesHold(t)
  <1>1. ASSUME NEW x \in t.messages
        PROVE  HasPortal(t, x.chat, x.receiver) /\ x.sender \in t.ghosts
    <2>1. PICK m \in Taken(t, 3) : x = Row(3, m)
      BY <1>1, FilledTables DEF Rows
    <2> QED
      BY <2>1 DEF Row, MessageRow, Taken
  <1>2. ASSUME NEW x \in t.reactions
        PROVE  /\ HasMessagePart(t, x.msg, x.part, x.receiver)
               /\ HasPortal(t, x.chat, x.receiver) /\ x.sender \in t.ghosts
    <2>1. PICK r \in Taken(t, 4) : x = Row(4, r)
      BY <1>2, FilledTables DEF Rows
    <2> QED
      BY <2>1 DEF Row, ReactionRow, Taken
  <1>3. ASSUME NEW x \in t.logins
        PROVE  \E u \in t.users : u.mxid = x.mxid
    <2>1. PICK u \in Taken(t, 6) : n > 6 /\ x = Row(6, u)
      BY <1>3, FilledTables DEF Rows
    <2>2. u \in Taken(t, 5) /\ x.mxid = u.mxid
      BY <2>1 DEF Taken, Owners, Row, LoginRow
    <2>3. Row(5, u) \in t.users
      BY <2>1, <2>2, FilledTables DEF Rows
    <2>4. Row(5, u).mxid = u.mxid
      BY DEF Row, UserRow
    <2> QED
      BY <2>2, <2>3, <2>4
  <1>4. ASSUME NEW x \in t.places
        PROVE  HasPortal(t, x.portal, x.receiver) /\ [id |-> x.login, mxid |-> x.mxid] \in t.logins
    <2>1. PICK p \in Taken(t, 7) : n > 7 /\ x = Row(7, p)
      BY <1>4, FilledTables DEF Rows
    <2>2. /\ OwnerOf(p) # {} /\ HasPortal(t, p.id, p.receiver)
          /\ \E l \in t.logins : l.id = p.receiver
      BY <2>1 DEF Taken
    <2>3. PICK l \in t.logins : l.id = p.receiver
      BY <2>2
    <2>4. PICK u \in Taken(t, 6) : l = Row(6, u)
      BY <2>1, <2>3, FilledTables DEF Rows
    <2>5. u \in src.users /\ u.gcid = p.receiver /\ l = [id |-> u.gcid, mxid |-> u.mxid]
      BY <2>3, <2>4 DEF Taken, Owners, Row, LoginRow
    <2>6. (CHOOSE o \in OwnerOf(p) : TRUE) = u
      <3>1. (CHOOSE o \in OwnerOf(p) : TRUE) \in OwnerOf(p)
        BY <2>2
      <3>2. \A o \in OwnerOf(p) : o = u
        BY <2>5, SourceFacts DEF OwnerOf, PythonKeys
      <3> QED
        BY <3>1, <3>2
    <2>7. /\ x.portal = p.id /\ x.receiver = p.receiver /\ x.login = p.receiver
          /\ x.mxid = u.mxid
      <3>1. /\ PlaceRow(p).portal = p.id /\ PlaceRow(p).receiver = p.receiver
            /\ PlaceRow(p).login = p.receiver
            /\ PlaceRow(p).mxid = (CHOOSE o \in OwnerOf(p) : TRUE).mxid
        BY DEF PlaceRow
      <3>2. x = PlaceRow(p)
        BY <2>1 DEF Row
      <3> QED
        BY <2>6, <3>1, <3>2
    <2> QED
      BY <2>2, <2>3, <2>5, <2>7
  <1> QED
    BY <1>1, <1>2, <1>3, <1>4 DEF ReferencesHold

(***************************************************************************)
(* A step of a migrator.                                                   *)
(***************************************************************************)
(* The source does not change, so what the operators say of a table now    *)
(* they say of it later.                                                   *)
LEMMA SourceFrame ==
  ASSUME src' = src
  PROVE  \A t, k : /\ Taken(t, k)' = Taken(t, k)
                   /\ Skipped(t, k)' = Skipped(t, k)
                   /\ Rows(t, k)' = Rows(t, k)
  <1>1. Owners' = Owners /\ DMs' = DMs
    BY DEF Owners, DMs
  <1>2. \A i, c, r : Group(i, c, r)' = Group(i, c, r)
    BY DEF Group
  <1>3. \A r : FirstRow(r)' = FirstRow(r)
    BY <1>2 DEF FirstRow
  <1>4. \A r : ReactionPart(r)' = ReactionPart(r)
    BY <1>2, <1>3 DEF ReactionPart
  <1>5. \A p : OwnerOf(p)' = OwnerOf(p)
    BY DEF OwnerOf
  <1>6. \A t, k : Taken(t, k)' = Taken(t, k)
    BY <1>1, <1>3, <1>4, <1>5 DEF Taken
  <1>7. \A t, k : Skipped(t, k)' = Skipped(t, k)
    BY <1>1, <1>6 DEF Skipped
  <1>8. \A k, x : Row(k, x)' = Row(k, x)
    <2>1. \A x : MessageRow(x)' = MessageRow(x)
      BY <1>2 DEF MessageRow
    <2>2. \A x : ReactionRow(x)' = ReactionRow(x)
      BY <1>4 DEF ReactionRow
    <2>3. \A x : UserRow(x)' = UserRow(x)
      BY DEF UserRow
    <2>4. \A x : PlaceRow(x)' = PlaceRow(x)
      BY <1>5 DEF PlaceRow
    <2> QED
      BY <2>1, <2>2, <2>3, <2>4 DEF Row
  <1>9. \A t, k : Rows(t, k)' = Rows(t, k)
    BY <1>6, <1>8 DEF Rows
  <1> QED
    BY <1>6, <1>7, <1>9

LEMMA FilledFrame ==
  ASSUME src' = src
  PROVE  \A t, n : Filled(t, n)' = Filled(t, n)
  <1>1. \A t, k : Rows(t, k)' = Rows(t, k)
    BY SourceFrame
  <1>2. Order' = Order /\ Tables' = Tables
    BY DEF Order, Tables
  <1> QED
    BY <1>1, <1>2 DEF Filled

(* The tables when the rows of migrator k are in. *)
After(k) == [txn EXCEPT ![Order[k]] = @ \cup Rows(txn, k)]
RowsOf(k) == [x \in Taken(txn, k) |-> Row(k, x)]

LEMMA AfterFacts ==
  ASSUME NEW k \in 1..7, txn = [x \in Tables |-> txn[x]]
  PROVE  /\ After(k) = [x \in Tables |-> After(k)[x]]
         /\ After(k)[Order[k]] = txn[Order[k]] \cup Rows(txn, k)
         /\ \A j \in 1..7 : j # k => After(k)[Order[j]] = txn[Order[j]]
         /\ \A j \in 1..k : /\ Skipped(After(k), j) = Skipped(txn, j)
                            /\ Rows(After(k), j) = Rows(txn, j)
  <1>1. Order[k] \in Tables /\ \A j \in 1..7 : Order[j] \in Tables /\ (j # k => Order[j] # Order[k])
    BY OrderFacts
  <1>2. /\ After(k) = [x \in Tables |-> After(k)[x]]
        /\ After(k)[Order[k]] = txn[Order[k]] \cup Rows(txn, k)
        /\ \A j \in 1..7 : j # k => After(k)[Order[j]] = txn[Order[j]]
    BY <1>1 DEF After
  <1>3. ASSUME NEW j \in 1..k
        PROVE  Skipped(After(k), j) = Skipped(txn, j) /\ Rows(After(k), j) = Rows(txn, j)
    <2>1. j \in 1..7 /\ \A i \in 1..(j - 1) : After(k)[Order[i]] = txn[Order[i]]
      BY <1>2
    <2> QED
      BY <2>1, TakenFrame
  <1> QED
    BY <1>2, <1>3

LEMMA MigratorSteps ==
  ASSUME NEW k \in 1..7, Migrator(k)
  PROVE  /\ step = k
         /\ \/ /\ txn' = After(k) /\ step' = k + 1
               /\ warned' = warned \cup {<<Order[k], x>> : x \in Skipped(txn, k)}
               /\ UNCHANGED <<src, target, opts, outcome, migrated, runs, bares>>
            \/ ~Accepted(Order[k], RowsOf(k), After(k)) /\ Rollback("conflict")
  <1>1. {RowsOf(k)[x] : x \in DOMAIN RowsOf(k)} = Rows(txn, k)
    BY DEF RowsOf, Rows
  <1>2. Insert(k, Order[k], RowsOf(k), Skipped(txn, k))
    BY DEF Migrator, RowsOf
  <1> QED
    BY <1>1, <1>2 DEF Insert, After

LEMMA FilledAfter ==
  ASSUME IInv, NEW k \in 1..7, step = k
  PROVE  /\ Filled(After(k), IF migrated THEN 8 ELSE k + 1)
         /\ migrated => After(k) = txn
         /\ ~migrated => After(k).users = target.users
                                           \cup (IF k + 1 > 5 THEN Rows(After(k), 5) ELSE {})
  <1>1. /\ Filled(txn, IF migrated THEN 8 ELSE k)
        /\ IF migrated THEN txn = target
           ELSE txn.users = target.users \cup (IF k > 5 THEN Rows(txn, 5) ELSE {})
    BY DEF IInv, TxnOK
  <1>2. txn = [x \in Tables |-> txn[x]]
    BY <1>1 DEF Filled
  <1>3. CASE migrated
    <2>1. Rows(txn, k) \subseteq txn[Order[k]]
      <3>1. CASE k = 5
        <4>1. Rows(txn, 5) \subseteq txn.users
          BY <1>1, <1>3 DEF Filled
        <4> QED
          BY <3>1, <4>1, OrderFacts
      <3>2. CASE k # 5
        <4>1. 8 > k
          OBVIOUS
        <4> QED
          BY <1>1, <1>3, <3>2, <4>1 DEF Filled
      <3> QED
        BY <3>1, <3>2
    <2>2. After(k) = txn
      BY <1>2, <2>1, OrderFacts DEF After
    <2> QED
      BY <1>1, <1>3, <2>2
  <1>4. CASE ~migrated
    <2>1. /\ After(k) = [x \in Tables |-> After(k)[x]]
          /\ After(k)[Order[k]] = txn[Order[k]] \cup Rows(txn, k)
          /\ \A j \in 1..7 : j # k => After(k)[Order[j]] = txn[Order[j]]
          /\ \A j \in 1..k : Rows(After(k), j) = Rows(txn, j)
      BY <1>2, AfterFacts
    <2>2. ASSUME NEW j \in 1..7, j # 5
          PROVE  After(k)[Order[j]] = IF k + 1 > j THEN Rows(After(k), j) ELSE {}
      <3>1. txn[Order[j]] = IF k > j THEN Rows(txn, j) ELSE {}
        BY <1>1, <1>4, <2>2 DEF Filled
      <3>2. CASE j = k
        <4>1. txn[Order[k]] = {} /\ Rows(After(k), k) = Rows(txn, k)
          BY <2>1, <3>1, <3>2
        <4> QED
          BY <2>1, <3>2, <4>1
      <3>3. CASE j < k
        BY <2>1, <3>1, <3>3
      <3>4. CASE j > k
        BY <2>1, <3>1, <3>4
      <3> QED
        BY <3>2, <3>3, <3>4
    <2>3. After(k).users = target.users \cup (IF k + 1 > 5 THEN Rows(After(k), 5) ELSE {})
      <3>1. txn[Order[5]] = target.users \cup (IF k > 5 THEN Rows(txn, 5) ELSE {})
        BY <1>1, <1>4, OrderFacts
      <3>2. After(k)[Order[5]] = target.users
                                  \cup (IF k + 1 > 5 THEN Rows(After(k), 5) ELSE {})
        <4>1. CASE k = 5
          BY <2>1, <3>1, <4>1
        <4>2. CASE k < 5
          BY <2>1, <3>1, <4>2
        <4>3. CASE k > 5
          BY <2>1, <3>1, <4>3
        <4> QED
          BY <4>1, <4>2, <4>3
      <3> QED
        BY <3>2, OrderFacts
    <2>4. Filled(After(k), k + 1)
      BY <2>1, <2>2, <2>3 DEF Filled
    <2> QED
      BY <1>4, <2>3, <2>4
  <1> QED
    BY <1>3, <1>4

(* A run into an empty target is never refused a row: the transaction      *)
(* holds no row of the migrator's table, its own rows have different keys, *)
(* and what they refer to is there.                                        *)
LEMMA Fits ==
  ASSUME IInv, NEW k \in 1..7, step = k, ~opts.force
  PROVE  Accepted(Order[k], RowsOf(k), After(k))
  <1>1. /\ Filled(txn, IF migrated THEN 8 ELSE k) /\ ~HasData(target)
        /\ IF migrated THEN txn = target
           ELSE txn.users = target.users \cup (IF k > 5 THEN Rows(txn, 5) ELSE {})
        /\ src \in Sources
    BY DEF IInv, TxnOK, TypeOK
  <1>2. /\ target.portals = {} /\ target.ghosts = {} /\ target.messages = {}
        /\ target.reactions = {} /\ target.users = {} /\ target.logins = {}
    BY <1>1 DEF HasData, Tables
  <1>3. ReferencesHold(After(k))
    BY <1>1, FilledAfter, References
  <1>4. \A x, y \in DOMAIN RowsOf(k) :
           x # y => Key(Order[k], RowsOf(k)[x]) # Key(Order[k], RowsOf(k)[y])
    BY <1>1, KeysDiffer DEF RowsOf
  <1>5. txn[Order[k]] = {} \/ Taken(txn, k) = {}
    <2>1. CASE ~migrated
      <3>1. CASE k = 5
        BY <1>1, <1>2, <2>1, <3>1, OrderFacts
      <3>2. CASE k # 5
        BY <1>1, <2>1, <3>2 DEF Filled
      <3> QED
        BY <3>1, <3>2
    <2>2. CASE migrated
      <3>1. CASE k \in 1..6
        BY <1>1, <1>2, <2>2, <3>1, OrderFacts
      <3>2. CASE k = 7
        BY <1>1, <1>2, <2>2, <3>2 DEF Taken
      <3> QED
        BY <3>1, <3>2
    <2> QED
      BY <2>1, <2>2
  <1>6. \A x \in DOMAIN RowsOf(k) : \A r \in txn[Order[k]] :
           Key(Order[k], RowsOf(k)[x]) # Key(Order[k], r)
    BY <1>5 DEF RowsOf
  <1> QED
    BY <1>3, <1>4, <1>6 DEF Accepted

(***************************************************************************)
(* The invariant.                                                          *)
(***************************************************************************)
LEMMA InitInv ==
  ASSUME Init
  PROVE  IInv
  <1>1. TypeOK
    <2>1. DOMAIN target = Tables /\ DOMAIN txn = Tables
      BY DEF Init, Empty
    <2>2. opts \in [force : BOOLEAN, dry : BOOLEAN]
      BY DEF Init
    <2>3. runs \in 0..MaxRuns /\ bares \in 0..MaxBare
      BY MigrateAssumption DEF Init
    <2>4. src \in Sources /\ step \in 0..8 /\ \A w \in warned : w[1] \in Tables
      BY DEF Init
    <2>5. migrated \in BOOLEAN
      BY Zenon DEF Init
    <2>6. /\ outcome \in {"none", "running", "refused", "conflict", "failed", "dry", "committed"}
          /\ outcome = "running" <=> step > 0
      BY DEF Init
    <2> QED
      BY <2>1, <2>2, <2>3, <2>4, <2>5, <2>6 DEF TypeOK
  <1>2. Filled(target, 1)
    <2>1. target = [x \in Tables |-> {}]
      BY DEF Init, Empty
    <2> QED
      BY <2>1, OrderFacts DEF Filled
  <1> QED
    BY <1>1, <1>2 DEF Init, IInv, TargetOK, TxnOK, CommittedOK, SourceAlwaysFits

(* The target is in order in every state, since it changes only at the end *)
(* of a run and by the bridge.                                             *)
LEMMA SameTarget ==
  ASSUME IInv, UNCHANGED <<src, target, migrated>>
  PROVE  TargetOK'
  <1>1. \A t, n : Filled(t, n)' = Filled(t, n)
    BY FilledFrame
  <1> QED
    BY <1>1 DEF IInv, TargetOK

LEMMA BetweenRuns ==
  ASSUME IInv, UNCHANGED <<src, target, migrated>>, TypeOK', step' = 0,
         outcome' # "committed", outcome' = "conflict" => opts'.force
  PROVE  IInv'
  BY SameTarget DEF IInv, TxnOK, CommittedOK, SourceAlwaysFits

LEMMA RollbackInv ==
  ASSUME IInv, NEW why \in {"failed", "dry", "conflict"}, Rollback(why), why = "conflict" => opts.force
  PROVE  IInv'
  <1>1. TypeOK'
    BY DEF IInv, TypeOK, Rollback, Empty
  <1> QED
    BY <1>1, BetweenRuns DEF Rollback

LEMMA MigratorInv ==
  ASSUME IInv, NEW k \in 1..7, Migrator(k)
  PROVE  IInv'
  <1>1. step = k
    BY MigratorSteps
  <1>2. CASE ~Accepted(Order[k], RowsOf(k), After(k)) /\ Rollback("conflict")
    BY <1>1, <1>2, Fits, RollbackInv
  <1>3. CASE /\ txn' = After(k) /\ step' = k + 1
             /\ warned' = warned \cup {<<Order[k], x>> : x \in Skipped(txn, k)}
             /\ UNCHANGED <<src, target, opts, outcome, migrated, runs, bares>>
    <2> DEFINE end == IF migrated THEN 8 ELSE k + 1
    <2>1. /\ Filled(After(k), end)
          /\ migrated => After(k) = txn
          /\ ~migrated => After(k).users = target.users
                                           \cup (IF k + 1 > 5 THEN Rows(After(k), 5) ELSE {})
      BY <1>1, FilledAfter
    <2>2. txn = [x \in Tables |-> txn[x]]
      BY <1>1 DEF IInv, TxnOK, Filled
    <2>3. TypeOK'
      <3>1. DOMAIN txn' = Tables
        BY <1>3, <2>1 DEF Filled
      <3>2. \A w \in warned' : w[1] \in Tables
        BY <1>3, OrderFacts DEF IInv, TypeOK
      <3> QED
        BY <1>1, <1>3, <3>1, <3>2 DEF IInv, TypeOK
    <2>4. Told(txn, step)'
      <3>1. \A j \in 1..k : Skipped(After(k), j) = Skipped(txn, j)
        BY <2>2, AfterFacts
      <3>2. Told(txn, k)
        BY <1>1 DEF IInv, TxnOK
      <3>3. ASSUME NEW j \in 1..7, step' > j, NEW x \in Skipped(txn', j)
            PROVE  <<Order[j], x>> \in warned'
        <4>1. j \in 1..k /\ x \in Skipped(txn, j)
          BY <1>3, <3>1, <3>3
        <4>2. CASE j = k
          BY <1>3, <4>1, <4>2
        <4>3. CASE j < k
          BY <1>3, <3>2, <4>1, <4>3 DEF Told
        <4> QED
          BY <4>1, <4>2, <4>3
      <3>4. \A t, j : Skipped(t, j)' = Skipped(t, j)
        BY <1>3, SourceFrame
      <3>5. Order' = Order
        BY DEF Order
      <3> QED
        BY <3>3, <3>4, <3>5 DEF Told
    <2>5. TxnOK'
      <3>1. \A t, n : Filled(t, n)' = Filled(t, n)
        BY <1>3, FilledFrame
      <3>2. \A t, n : Rows(t, n)' = Rows(t, n)
        BY <1>3, SourceFrame
      <3>3. Filled(txn, IF migrated THEN 8 ELSE step)'
        <4>1. Filled(txn', IF migrated' THEN 8 ELSE step')
          BY <1>3, <2>1
        <4> QED
          BY <3>1, <4>1
      <3>4. opts'.force \/ ~HasData(target')
        BY <1>1, <1>3 DEF IInv, TxnOK
      <3>5. IF migrated' THEN txn' = target'
            ELSE txn'.users = target'.users \cup (IF step' > 5 THEN Rows(txn, 5)' ELSE {})
        BY <1>1, <1>3, <2>1, <3>2 DEF IInv, TxnOK
      <3> QED
        BY <1>3, <2>4, <3>3, <3>4, <3>5 DEF TxnOK, HasData, Tables
    <2>6. outcome' # "committed"
      BY <1>1, <1>3 DEF IInv, TypeOK
    <2>7. TargetOK'
      BY <1>3, SameTarget
    <2>8. outcome' # "conflict"
      BY <1>1, <1>3 DEF IInv, TypeOK
    <2> QED
      BY <2>3, <2>5, <2>6, <2>7, <2>8 DEF IInv, CommittedOK, SourceAlwaysFits
  <1> QED
    BY <1>2, <1>3, MigratorSteps

LEMMA BeginInv ==
  ASSUME IInv, Begin
  PROVE  IInv'
  <1>1. TypeOK'
    BY MigrateAssumption DEF IInv, TypeOK, Begin
  <1>2. CASE ~opts'.force /\ outcome' = "refused" /\ UNCHANGED <<step, txn>>
    BY <1>1, <1>2, BetweenRuns DEF Begin
  <1>3. CASE /\ opts'.force \/ ~HasData(target)
             /\ step' = 1 /\ txn' = target /\ outcome' = "running"
    <2>1. UNCHANGED <<src, target, migrated>>
      BY DEF Begin
    <2>2. Filled(txn, IF migrated THEN 8 ELSE step)'
      <3>1. Filled(txn', IF migrated' THEN 8 ELSE step')
        BY <1>3, <2>1 DEF IInv, TargetOK
      <3>2. \A t, n : Filled(t, n)' = Filled(t, n)
        BY <2>1, FilledFrame
      <3> QED
        BY <3>1, <3>2
    <2>3. Told(txn, step)'
      BY <1>3 DEF Told
    <2>4. TxnOK'
      <3>1. ~migrated' => txn'.users = target'.users \cup {}
        BY <1>3, <2>1
      <3> QED
        BY <1>3, <2>1, <2>2, <2>3, <3>1 DEF TxnOK, HasData, Tables
    <2> QED
      BY <1>1, <1>3, <2>1, <2>4, SameTarget DEF IInv, CommittedOK, SourceAlwaysFits
  <1> QED
    BY <1>2, <1>3 DEF Begin

(* What is committed is what the transaction saw; and when a run has       *)
(* committed before, that was the target.                                  *)
LEMMA CommitKeeps ==
  ASSUME IInv, step = 8
  PROVE  Filled(txn, 8) /\ Told(txn, 8) /\ (migrated => txn = target)
  BY DEF IInv, TxnOK

LEMMA FinishInv ==
  ASSUME IInv, Finish
  PROVE  IInv'
  <1>1. CASE Rollback("dry")
    BY <1>1, RollbackInv
  <1>2. CASE /\ step' = 0 /\ target' = txn /\ txn' = Empty
             /\ outcome' = "committed" /\ migrated' = TRUE
             /\ UNCHANGED <<src, opts, warned, runs, bares>>
    <2>1. Filled(txn, 8) /\ Told(txn, 8)
      BY CommitKeeps DEF Finish
    <2>2. TypeOK'
      BY <1>2 DEF IInv, TypeOK, Empty
    <2>3. Filled(target, 8)'
      <3>1. \A t, n : Filled(t, n)' = Filled(t, n)
        BY <1>2, FilledFrame
      <3> QED
        BY <1>2, <2>1, <3>1
    <2>4. Told(target, 8)'
      <3>1. \A t, j : Skipped(t, j)' = Skipped(t, j)
        BY <1>2, SourceFrame
      <3>2. Order' = Order
        BY DEF Order
      <3> QED
        BY <1>2, <2>1, <3>1, <3>2 DEF Told
    <2> QED
      BY <1>2, <2>2, <2>3, <2>4 DEF IInv, TargetOK, TxnOK, CommittedOK, SourceAlwaysFits
  <1> QED
    BY <1>1, <1>2 DEF Finish

(* A row of the bridge is one of users, which no migrator reads.           *)
LEMMA BotContactFacts ==
  ASSUME IInv, NEW u, BotContact(u)
  PROVE  /\ target' = [x \in Tables |-> target'[x]]
         /\ \A j \in 1..7 : j # 5 => target'[Order[j]] = target[Order[j]]
         /\ target.users \subseteq target'.users
         /\ \A k \in 1..7 : /\ Skipped(target', k) = Skipped(target, k)
                            /\ Rows(target', k) = Rows(target, k)
  <1>1. target = [x \in Tables |-> target[x]]
    BY DEF IInv, TargetOK, Filled
  <1>2. target' = [target EXCEPT !["users"] = @ \cup {[mxid |-> u, token |-> FALSE]}]
    BY DEF BotContact
  <1>3. /\ Order[5] = "users" /\ "users" \in Tables
        /\ \A j \in 1..7 : Order[j] \in Tables /\ (j # 5 => Order[j] # Order[5])
    BY OrderFacts
  <1>4. /\ target' = [x \in Tables |-> target'[x]]
        /\ \A j \in 1..7 : j # 5 => target'[Order[j]] = target[Order[j]]
        /\ target.users \subseteq target'.users
    BY <1>1, <1>2, <1>3
  <1>5. \A k \in 1..7 : /\ Skipped(target', k) = Skipped(target, k)
                        /\ Rows(target', k) = Rows(target, k)
    <2>1. \A k \in 1..7 : \A j \in 1..(k - 1) : j # 5 => target'[Order[j]] = target[Order[j]]
      BY <1>4
    <2> QED
      BY <2>1, TakenFrame
  <1> QED
    BY <1>4, <1>5

LEMMA BotContactInv ==
  ASSUME IInv, NEW u, BotContact(u)
  PROVE  IInv'
  <1>1. /\ step = 0 /\ bares < MaxBare /\ bares' = bares + 1
        /\ UNCHANGED <<src, txn, step, opts, warned, outcome, migrated, runs>>
    BY DEF BotContact
  <1>2. DOMAIN target' = Tables
    BY BotContactFacts DEF Filled
  <1>3. TypeOK'
    BY <1>1, <1>2, MigrateAssumption DEF IInv, TypeOK
  <1>4. ASSUME NEW n \in {1, 8}, Filled(target, n)
        PROVE  Filled(target, n)'
    <2>1. \A j \in 1..7 : j # 5 => target'[Order[j]] = IF n > j THEN Rows(target', j) ELSE {}
      BY <1>4, BotContactFacts DEF Filled
    <2>2. n > 5 => Rows(target', 5) \subseteq target'.users
      BY <1>4, BotContactFacts, FilledTables
    <2>3. Filled(target', n)
      BY <2>1, <2>2, BotContactFacts DEF Filled
    <2>4. \A t, m : Filled(t, m)' = Filled(t, m)
      BY <1>1, FilledFrame
    <2> QED
      BY <2>3, <2>4
  <1>5. TargetOK'
    BY <1>1, <1>4 DEF IInv, TargetOK
  <1>6. Told(target, 8) => Told(target, 8)'
    <2>1. \A t, j : Skipped(t, j)' = Skipped(t, j)
      BY <1>1, SourceFrame
    <2>2. Order' = Order
      BY DEF Order
    <2> QED
      BY <1>1, <2>1, <2>2, BotContactFacts DEF Told
  <1> QED
    BY <1>1, <1>3, <1>5, <1>6 DEF IInv, TxnOK, CommittedOK, SourceAlwaysFits

LEMMA StutterInv ==
  ASSUME IInv, UNCHANGED vars
  PROVE  IInv'
  <1>1. UNCHANGED <<src, target, txn, step, opts, warned, outcome, migrated, runs, bares>>
    BY DEF vars
  <1>2. TypeOK'
    BY <1>1 DEF IInv, TypeOK
  <1>3. \A t, n : Filled(t, n)' = Filled(t, n) /\ Skipped(t, n)' = Skipped(t, n)
                  /\ Rows(t, n)' = Rows(t, n)
    BY <1>1, FilledFrame, SourceFrame
  <1>4. Order' = Order
    BY DEF Order
  <1>5. \A t, n : Told(t, n)' = Told(t, n)
    BY <1>1, <1>3, <1>4 DEF Told
  <1>6. TargetOK'
    BY <1>1, SameTarget
  <1>7. TxnOK'
    BY <1>1, <1>3, <1>5 DEF IInv, TxnOK, HasData
  <1>8. CommittedOK'
    BY <1>1, <1>5 DEF IInv, CommittedOK
  <1> QED
    BY <1>1, <1>2, <1>6, <1>7, <1>8 DEF IInv, SourceAlwaysFits

LEMMA NextInv ==
  ASSUME IInv, [Next]_vars
  PROVE  IInv'
  <1>1. CASE Begin
    BY <1>1, BeginInv
  <1>2. CASE Finish
    BY <1>2, FinishInv
  <1>3. CASE Fail
    BY <1>3, RollbackInv DEF Fail
  <1>4. CASE \/ MigratePortals \/ MigrateGhosts \/ MigrateMessages \/ MigrateReactions
             \/ MigrateUsers \/ MigrateUserLogins \/ MigrateUserPortals
    <2>1. PICK k \in 1..7 : Migrator(k)
      BY <1>4, Migrators
    <2> QED
      BY <2>1, MigratorInv
  <1>5. CASE \E u \in Users : BotContact(u)
    BY <1>5, BotContactInv
  <1>6. CASE UNCHANGED vars
    BY <1>6, StutterInv
  <1> QED
    BY <1>1, <1>2, <1>3, <1>4, <1>5, <1>6 DEF Next

(* Inductive invariant: the target and the transaction hold, table by      *)
(* table, the rows of the migrators that ran, and what these skipped was   *)
(* told (migrate.go, Run).                                                 *)
THEOREM InvHolds == Spec => []IInv
  <1>1. Init => IInv
    BY InitInv
  <1>2. IInv /\ [Next]_vars => IInv'
    BY NextInv
  <1> QED
    BY <1>1, <1>2, PTL DEF Spec

(* Type correctness.                                                       *)
THEOREM MigrateTypeCorrect == Spec => []TypeOK
  <1>1. IInv => TypeOK
    BY DEF IInv
  <1> QED
    BY <1>1, InvHolds, PTL

(* No Python database, however its rows dangle, makes a run into an empty  *)
(* target break a key or a reference.                                      *)
THEOREM SourceAlwaysFitsHolds == Spec => []SourceAlwaysFits
  <1>1. IInv => SourceAlwaysFits
    BY DEF IInv
  <1> QED
    BY <1>1, InvHolds, PTL

(***************************************************************************)
(* What changes the target.                                                *)
(***************************************************************************)
LEMMA StepChangesOnce ==
  ASSUME IInv, [Next]_vars
  PROVE  ChangesOnce
  <1>1. CASE target' = target
    BY <1>1 DEF ChangesOnce, NoUsers
  <1>2. CASE Finish
    <2>1. CASE Rollback("dry")
      BY <1>1, <2>1 DEF Rollback
    <2>2. CASE ~opts.dry /\ target' = txn /\ outcome' = "committed"
      <3>1. CASE migrated
        BY <1>1, <1>2, <2>2, <3>1, CommitKeeps DEF Finish
      <3>2. CASE ~migrated
        BY <2>2, <3>2 DEF ChangesOnce
      <3> QED
        BY <3>1, <3>2
    <2> QED
      BY <1>2, <2>1, <2>2 DEF Finish
  <1>3. ASSUME NEW u \in Users, BotContact(u)
        PROVE  ChangesOnce
    <2>1. DOMAIN target = Tables
      BY DEF IInv, TypeOK
    <2>2. target' = [target EXCEPT !.users = @ \cup {[mxid |-> u, token |-> FALSE]}]
      BY <1>3 DEF BotContact
    <2>3. NoUsers(target') = NoUsers(target)
      BY <2>1, <2>2 DEF NoUsers
    <2>4. target.users \subseteq target'.users
      BY <1>3, BotContactFacts
    <2> QED
      BY <2>3, <2>4 DEF ChangesOnce
  <1>4. CASE Begin \/ Fail
    BY <1>1, <1>4 DEF Begin, Fail, Rollback
  <1>5. CASE \/ MigratePortals \/ MigrateGhosts \/ MigrateMessages \/ MigrateReactions
             \/ MigrateUsers \/ MigrateUserLogins \/ MigrateUserPortals
    <2>1. PICK k \in 1..7 : Migrator(k)
      BY <1>5, Migrators
    <2> QED
      BY <1>1, <2>1, MigratorSteps DEF Rollback
  <1>6. CASE UNCHANGED vars
    BY <1>1, <1>6 DEF vars
  <1> QED
    BY <1>2, <1>3, <1>4, <1>5, <1>6 DEF Next

(* The target changes at most once, by a complete run that was no preview, *)
(* apart from the rows the bridge writes; a repeated run, forced or not,   *)
(* changes nothing (migrate.go, Run; docs/migration.md).                   *)
THEOREM AllOrNothingHolds == Spec => AllOrNothing
  <1>1. IInv /\ [Next]_vars => [ChangesOnce]_vars
    BY StepChangesOnce
  <1> QED
    BY <1>1, InvHolds, PTL DEF Spec, AllOrNothing

(***************************************************************************)
(* Nothing is lost silently.                                               *)
(***************************************************************************)
Committed == TypeOK /\ Filled(target, 8) /\ Told(target, 8)

LEMMA CommittedTables ==
  ASSUME Committed
  PROVE  /\ src \in Sources
         /\ target.portals = Rows(target, 1) /\ target.ghosts = Rows(target, 2)
         /\ target.messages = Rows(target, 3) /\ target.reactions = Rows(target, 4)
         /\ Rows(target, 5) \subseteq target.users
         /\ target.logins = Rows(target, 6) /\ target.places = Rows(target, 7)
         /\ \A x \in Skipped(target, 1) : <<"portals", x>> \in warned
         /\ \A x \in Skipped(target, 3) : <<"messages", x>> \in warned
         /\ \A x \in Skipped(target, 4) : <<"reactions", x>> \in warned
         /\ \A x \in Skipped(target, 5) : <<"users", x>> \in warned
         /\ \A x \in Skipped(target, 6) : <<"logins", x>> \in warned
         /\ \A x \in Skipped(target, 7) : <<"places", x>> \in warned
  <1>1. src \in Sources
    BY DEF Committed, TypeOK
  <1>2. \A k \in 1..7 : \A x \in Skipped(target, k) : <<Order[k], x>> \in warned
    BY DEF Committed, Told
  <1>3. /\ \A x \in Skipped(target, 1) : <<Order[1], x>> \in warned
        /\ \A x \in Skipped(target, 3) : <<Order[3], x>> \in warned
        /\ \A x \in Skipped(target, 4) : <<Order[4], x>> \in warned
        /\ \A x \in Skipped(target, 5) : <<Order[5], x>> \in warned
        /\ \A x \in Skipped(target, 6) : <<Order[6], x>> \in warned
        /\ \A x \in Skipped(target, 7) : <<Order[7], x>> \in warned
    BY <1>2
  <1>4. Filled(target, 8)
    BY DEF Committed
  <1> QED
    BY <1>1, <1>3, <1>4, FilledTables, OrderFacts

LEMMA PortalKept ==
  ASSUME Committed, NEW p \in src.portals, <<"portals", p>> \notin warned
  PROVE  /\ HasPortal(target, p.id, p.receiver)
         /\ \/ p.kind # "dm" \/ <<"places", p>> \in warned
            \/ \E x \in target.places : x.portal = p.id /\ x.login = p.receiver
  <1>1. p \in Taken(target, 1)
    BY CommittedTables DEF Skipped
  <1>2. p \in target.portals
    <2>1. Row(1, p) = p
      BY DEF Row
    <2> QED
      BY <1>1, <2>1, CommittedTables DEF Rows
  <1>3. ASSUME p.kind = "dm", <<"places", p>> \notin warned
        PROVE  \E x \in target.places : x.portal = p.id /\ x.login = p.receiver
    <2>1. p \in Taken(target, 7)
      BY <1>3, CommittedTables DEF Skipped, DMs
    <2>2. Row(7, p) \in target.places
      BY <2>1, CommittedTables DEF Rows
    <2>3. Row(7, p).portal = p.id /\ Row(7, p).login = p.receiver
      <3>1. PlaceRow(p).portal = p.id /\ PlaceRow(p).login = p.receiver
        BY DEF PlaceRow
      <3>2. Row(7, p) = PlaceRow(p)
        BY DEF Row
      <3> QED
        BY <3>1, <3>2
    <2> QED
      BY <2>2, <2>3
  <1> QED
    BY <1>2, <1>3 DEF HasPortal

LEMMA PuppetKept ==
  ASSUME Committed, NEW p \in src.puppets
  PROVE  /\ p.id \in target.ghosts
         /\ p.owner # None /\ <<"users", p>> \notin warned =>
              \E u \in target.users : u.mxid = p.owner /\ u.token
  <1>1. p.id \in target.ghosts
    <2>1. p \in Taken(target, 2) /\ Row(2, p) = p.id
      BY DEF Taken, Row
    <2> QED
      BY <2>1, CommittedTables DEF Rows
  <1>2. ASSUME p.owner # None, <<"users", p>> \notin warned
        PROVE  \E u \in target.users : u.mxid = p.owner /\ u.token
    <2>1. PICK u \in src.users : u.mxid = p.owner
      BY <1>2, CommittedTables DEF Skipped
    <2>2. u \in Taken(target, 5) /\ Row(5, u) = UserRow(u)
      BY DEF Taken, Row
    <2>3. UserRow(u) \in target.users
      BY <2>2, CommittedTables DEF Rows
    <2>4. UserRow(u).mxid = p.owner /\ UserRow(u).token
      BY <2>1 DEF UserRow
    <2> QED
      BY <2>3, <2>4
  <1> QED
    BY <1>1, <1>2

(* A target row is the row of a message that was taken.                    *)
LEMMA MessageOfRow ==
  ASSUME Committed, NEW x \in target.messages
  PROVE  \E m \in Taken(target, 3) : x = MessageRow(m) /\ m \in src.messages /\ m.id # None
  <1>1. PICK m \in Taken(target, 3) : x = Row(3, m)
    BY CommittedTables DEF Rows
  <1> QED
    BY <1>1 DEF Row, Taken

LEMMA MessageKept ==
  ASSUME Committed, NEW m \in src.messages, <<"messages", m>> \notin warned
  PROVE  \E x \in target.messages : x.id = m.id /\ x.chat = m.chat /\ x.mxid = m.mxid
  <1>1. m \in Taken(target, 3) /\ Row(3, m) = MessageRow(m)
    BY CommittedTables DEF Skipped, Row
  <1>2. MessageRow(m) \in target.messages
    BY <1>1, CommittedTables DEF Rows
  <1>3. /\ MessageRow(m).id = m.id /\ MessageRow(m).chat = m.chat
        /\ MessageRow(m).mxid = m.mxid
    BY DEF MessageRow
  <1> QED
    BY <1>2, <1>3

(* The target row that a reaction finds by its part is the one made from   *)
(* the row it was made on, and the other way round.                        *)
On(r) == {m \in target.messages : \E first \in FirstRow(r) : m.mxid = first.mxid}

LEMMA OnTheFirst ==
  ASSUME Committed, NEW r, NEW m \in On(r)
  PROVE  /\ FirstRow(r) # {} /\ r.msg # None
         /\ HasPortal(target, r.chat, r.receiver)
         /\ m.id = r.msg /\ m.receiver = r.receiver /\ m.part = ReactionPart(r)
  <1>1. PICK first \in FirstRow(r) : m.mxid = first.mxid
    BY DEF On
  <1>2. PICK n \in Taken(target, 3) : m = MessageRow(n) /\ n \in src.messages /\ n.id # None
    BY MessageOfRow DEF On
  <1>3. /\ MessageRow(n).mxid = n.mxid /\ MessageRow(n).id = n.id
        /\ MessageRow(n).receiver = n.receiver
    BY DEF MessageRow
  <1>4. n = first
    <2>1. first \in src.messages
      BY DEF FirstRow, Group
    <2> QED
      BY <1>1, <1>2, <1>3, <2>1, SourceFacts, CommittedTables DEF PythonKeys
  <1>5. first.id = r.msg /\ first.chat = r.chat /\ first.receiver = r.receiver
    BY DEF FirstRow, Group
  <1>6. ReactionPart(r) = MessageRow(first).part
    BY <1>2, <1>4, <1>5, FirstOf, CommittedTables
  <1>7. HasPortal(target, n.chat, n.receiver)
    BY <1>2 DEF Taken
  <1> QED
    BY <1>2, <1>3, <1>4, <1>5, <1>6, <1>7

LEMMA FirstIsOn ==
  ASSUME Committed, NEW r \in Taken(target, 4)
  PROVE  On(r) # {}
  <1>1. /\ r.msg # None /\ FirstRow(r) # {}
        /\ HasMessagePart(target, r.msg, ReactionPart(r), r.receiver)
    BY DEF Taken
  <1>2. PICK first \in FirstRow(r) : TRUE
    BY <1>1
  <1>3. PICK m \in target.messages :
           m.id = r.msg /\ m.part = ReactionPart(r) /\ m.receiver = r.receiver
    BY <1>1 DEF HasMessagePart
  <1>4. PICK n \in Taken(target, 3) : m = MessageRow(n) /\ n \in src.messages /\ n.id # None
    BY MessageOfRow
  <1>5. /\ first \in src.messages /\ first.id = r.msg /\ first.receiver = r.receiver
        /\ ReactionPart(r) = MessageRow(first).part
    BY <1>1, FirstOf, CommittedTables
  <1>6. /\ MessageRow(n).mxid = n.mxid /\ MessageRow(n).id = n.id
        /\ MessageRow(n).receiver = n.receiver
    BY DEF MessageRow
  <1>7. n = first
    BY <1>3, <1>4, <1>5, <1>6, MessageParts, CommittedTables
  <1> QED
    BY <1>4, <1>6, <1>7 DEF On

LEMMA ReactionKept ==
  ASSUME Committed, NEW r \in src.reactions
  PROVE  IF On(r) # {} /\ r.emoji # None /\ r.sender # None /\ r.sender \in target.ghosts
         THEN \E x \in target.reactions, m \in On(r) :
                /\ x.sender = r.sender /\ x.emoji = r.emoji
                /\ x.msg = m.id /\ x.part = m.part
         ELSE <<"reactions", r>> \in warned
  <1>1. ASSUME NEW m \in On(r), r.emoji # None, r.sender # None, r.sender \in target.ghosts
        PROVE  \E x \in target.reactions :
                 x.sender = r.sender /\ x.emoji = r.emoji /\ x.msg = m.id /\ x.part = m.part
    <2>1. /\ FirstRow(r) # {} /\ r.msg # None
          /\ HasPortal(target, r.chat, r.receiver)
          /\ m.id = r.msg /\ m.receiver = r.receiver /\ m.part = ReactionPart(r)
      BY OnTheFirst
    <2>2. m \in target.messages
      BY DEF On
    <2>3. HasMessagePart(target, r.msg, ReactionPart(r), r.receiver)
      BY <2>1, <2>2 DEF HasMessagePart
    <2>4. r \in Taken(target, 4) /\ Row(4, r) = ReactionRow(r)
      BY <1>1, <2>1, <2>3 DEF Taken, Row
    <2>5. ReactionRow(r) \in target.reactions
      BY <2>4, CommittedTables DEF Rows
    <2>6. /\ ReactionRow(r).sender = r.sender /\ ReactionRow(r).emoji = r.emoji
          /\ ReactionRow(r).msg = r.msg /\ ReactionRow(r).part = ReactionPart(r)
      BY DEF ReactionRow
    <2> QED
      BY <2>1, <2>5, <2>6
  <1>2. ASSUME On(r) = {} \/ r.emoji = None \/ r.sender = None \/ r.sender \notin target.ghosts
        PROVE  <<"reactions", r>> \in warned
    <2>1. r \notin Taken(target, 4)
      <3>1. r \in Taken(target, 4) =>
               r.emoji # None /\ r.sender # None /\ r.sender \in target.ghosts
        BY DEF Taken
      <3> QED
        BY <1>2, <3>1, FirstIsOn
    <2> QED
      BY <2>1, CommittedTables DEF Skipped
  <1> QED
    BY <1>1, <1>2

LEMMA UserKept ==
  ASSUME Committed, NEW u \in src.users
  PROVE  /\ \E x \in target.users : x.mxid = u.mxid
         /\ u.gcid # None /\ u.cookies # None /\ <<"logins", u>> \notin warned =>
              LoginRow(u) \in target.logins
  <1>1. \E x \in target.users : x.mxid = u.mxid
    <2>1. u \in Taken(target, 5) /\ Row(5, u) = UserRow(u) /\ UserRow(u).mxid = u.mxid
      BY DEF Taken, Row, UserRow
    <2> QED
      BY <2>1, CommittedTables DEF Rows
  <1>2. ASSUME u.gcid # None, u.cookies # None, <<"logins", u>> \notin warned
        PROVE  LoginRow(u) \in target.logins
    <2>1. u \in Owners /\ u \notin Skipped(target, 6)
      BY <1>2, CommittedTables DEF Owners
    <2>2. u.cookies # "invalid"
      BY <2>1 DEF Skipped
    <2>3. u \in Taken(target, 6) /\ Row(6, u) = LoginRow(u)
      BY <2>1, <2>2 DEF Taken, Row
    <2> QED
      BY <2>3, CommittedTables DEF Rows
  <1> QED
    BY <1>1, <1>2

(* When a run has committed, every Python row is in the target or was      *)
(* warned of, and a reaction is on the part made from its message's first  *)
(* row (the migrators and docs/migration.md).                              *)
THEOREM NothingLostSilentlyHolds == Spec => []NothingLostSilently
  <1>1. IInv => NothingLostSilently
    <2>1. SUFFICES ASSUME IInv, outcome = "committed"
                   PROVE  NothingLostSilently
      BY DEF NothingLostSilently
    <2>2. Committed
      BY <2>1 DEF Committed, IInv, CommittedOK, TargetOK
    <2>3. \A p \in src.portals :
            \/ <<"portals", p>> \in warned
            \/ /\ HasPortal(target, p.id, p.receiver)
               /\ \/ p.kind # "dm" \/ <<"places", p>> \in warned
                  \/ \E x \in target.places : x.portal = p.id /\ x.login = p.receiver
      BY <2>2, PortalKept
    <2>4. \A p \in src.puppets :
            /\ p.id \in target.ghosts
            /\ p.owner # None /\ <<"users", p>> \notin warned =>
                 \E u \in target.users : u.mxid = p.owner /\ u.token
      BY <2>2, PuppetKept
    <2>5. \A m \in src.messages :
            \/ <<"messages", m>> \in warned
            \/ \E x \in target.messages : x.id = m.id /\ x.chat = m.chat /\ x.mxid = m.mxid
      BY <2>2, MessageKept
    <2>6. \A r \in src.reactions :
            IF On(r) # {} /\ r.emoji # None /\ r.sender # None /\ r.sender \in target.ghosts
            THEN \E x \in target.reactions, m \in On(r) :
                   /\ x.sender = r.sender /\ x.emoji = r.emoji
                   /\ x.msg = m.id /\ x.part = m.part
            ELSE <<"reactions", r>> \in warned
      BY <2>2, ReactionKept
    <2>7. \A u \in src.users :
            /\ \E x \in target.users : x.mxid = u.mxid
            /\ u.gcid # None /\ u.cookies # None /\ <<"logins", u>> \notin warned =>
                 LoginRow(u) \in target.logins
      BY <2>2, UserKept
    <2> QED
      BY <2>3, <2>4, <2>5, <2>6, <2>7 DEF NothingLostSilently, On
  <1> QED
    BY <1>1, InvHolds, PTL
=============================================================================

------------------------------ MODULE Migrate ------------------------------
(***************************************************************************)
(* The one-shot import of the Python bridge's database: Run of             *)
(* src/pkg/migrate/migrate.go and the migrators it calls, one per kind of  *)
(* row, in the order of the target's foreign keys and in one transaction   *)
(* of the target.                                                          *)
(*                                                                         *)
(* A migrator copies the rows that fit and warns of the ones it skips;     *)
(* since any error rolls everything back, what it does to its table is one *)
(* step.  A run may fail at any step or be killed, and may be repeated     *)
(* with any options; between the runs the bridge may have been started,    *)
(* which writes a bare user row.  The source is opened read-only and does  *)
(* not change.  Columns without a part in a key, a reference or a decision *)
(* are left out.                                                           *)
(***************************************************************************)
EXTENDS Integers, FiniteSets

CONSTANTS Sources, \* the Python databases
          Users,   \* the Matrix users who may write to the bot
          None,    \* NULL or the empty string
          MaxRuns, \* bound on the runs
          MaxBare  \* bound on the bare user rows

(* The keys of the Python tables, which belong to another program.  Those  *)
(* of portals, puppets and users are in fixtureSchemaSQL (source_test.go); *)
(* of the messages the code needs that an index occurs once in a group     *)
(* (assignPartIDs makes a map of it), of the reactions that one user gives *)
(* an emoji once.  Google gives no message id twice.                       *)
PythonKeys(s) ==
  /\ \A p, q \in s.portals : p.id = q.id /\ p.receiver = q.receiver => p = q
  /\ \A p, q \in s.puppets : p.id = q.id => p = q
  /\ \A m, n \in s.messages :
       /\ m.mxid = n.mxid => m = n
       /\ m.id = n.id /\ m.id # None /\ m.receiver = n.receiver
            => m.chat = n.chat /\ (m.index = n.index => m = n)
  /\ \A r, q \in s.reactions :
       <<r.msg, r.chat, r.receiver, r.sender, r.emoji>>
         = <<q.msg, q.chat, q.receiver, q.sender, q.emoji>> => r = q
  /\ \A u, v \in s.users : u.mxid = v.mxid \/ (u.gcid = v.gcid /\ u.gcid # None) => u = v

(* What is read from the message table (pyMessage): finitely many rows, an *)
(* int for the index, and msgtype, which makes a text or an attachment.    *)
MessageTypes(s) ==
  IsFiniteSet(s.messages) /\ \A m \in s.messages : m.index \in Int /\ m.text \in BOOLEAN

ASSUME MigrateAssumption ==
  /\ MaxRuns \in Nat /\ MaxBare \in Nat
  /\ \A s \in Sources : PythonKeys(s) /\ MessageTypes(s)

VARIABLES
  src,      \* the source
  target,   \* what is committed in the target, by table
  txn,      \* what the transaction sees
  step,     \* the next step of the run: 0 between runs, 8 at its end
  opts,     \* the options of the last run: force, dry
  warned,   \* the rows it warned of, by migrator
  outcome,  \* how it ended
  migrated, \* history: a run has committed
  runs, bares

vars == <<src, target, txn, step, opts, warned, outcome, migrated, runs, bares>>

Tables == {"portals", "ghosts", "messages", "reactions", "users", "logins", "places"}
Empty == [t \in Tables |-> {}]

TypeOK ==
  /\ src \in Sources
  /\ DOMAIN target = Tables /\ DOMAIN txn = Tables
  /\ step \in 0..8
  /\ opts \in [force : BOOLEAN, dry : BOOLEAN]
  /\ \A w \in warned : w[1] \in Tables
  /\ outcome \in {"none", "running", "refused", "conflict", "failed", "dry", "committed"}
  /\ migrated \in BOOLEAN
  /\ runs \in 0..MaxRuns /\ bares \in 0..MaxBare
  /\ outcome = "running" <=> step > 0

Init ==
  /\ src \in Sources
  /\ target = Empty /\ txn = Empty
  /\ step = 0 /\ opts = [force |-> FALSE, dry |-> FALSE]
  /\ warned = {} /\ outcome = "none" /\ migrated = FALSE
  /\ runs = 0 /\ bares = 0

(***************************************************************************)
(* The rows.                                                               *)
(***************************************************************************)

HasPortal(t, chat, receiver) ==
  \E p \in t.portals : p.id = chat /\ p.receiver = receiver

HasMessagePart(t, id, part, receiver) ==
  \E m \in t.messages : m.id = id /\ m.part = part /\ m.receiver = receiver

(* groupMessagesByID: the Python rows of one Google Chat message. *)
Group(id, chat, receiver) ==
  {m \in src.messages : m.id = id /\ m.chat = chat /\ m.receiver = receiver}

(* assignPartIDs.  The text part is -1, attachment k is k. *)
TextPart == -1
PartID(group, m) ==
  LET rank == Cardinality({n \in group : n.index < m.index})
      first == CHOOSE n \in group : \A o \in group : n.index <= o.index
  IN  IF Cardinality(group) = 1 \/ (first.text /\ m = first) THEN TextPart
      ELSE IF first.text THEN rank - 1 ELSE rank

MessageRow(m) ==
  [id |-> m.id, part |-> PartID(Group(m.id, m.chat, m.receiver), m), mxid |-> m.mxid,
   chat |-> m.chat, receiver |-> m.receiver, sender |-> m.sender]

(* Mutant: every reaction is put on the text part. *)
ReactionPartText(r) == TextPart

(* A reaction is put on the part of the row with index 0. *)
FirstRow(r) == {m \in Group(r.msg, r.chat, r.receiver) : m.index = 0}
ReactionPart(r) ==
  LET m == CHOOSE m \in FirstRow(r) : TRUE
  IN  PartID(Group(r.msg, r.chat, r.receiver), m)

ReactionRow(r) ==
  [msg |-> r.msg, part |-> ReactionPart(r), chat |-> r.chat,
   receiver |-> r.receiver, sender |-> r.sender, emoji |-> r.emoji]

UserRow(u) ==
  [mxid |-> u.mxid, token |-> \E p \in src.puppets : p.owner = u.mxid]

LoginRow(u) == [id |-> u.gcid, mxid |-> u.mxid]

OwnerOf(p) == {u \in src.users : u.gcid = p.receiver /\ u.gcid # None}

PlaceRow(p) ==
  [mxid |-> (CHOOSE u \in OwnerOf(p) : TRUE).mxid, login |-> p.receiver,
   portal |-> p.id, receiver |-> p.receiver]

(***************************************************************************)
(* The target database, which is not in the repository: the primary keys   *)
(* and the foreign keys of bridgev2's schema.                              *)
(***************************************************************************)

Key(table, r) ==
  CASE table = "portals" -> <<r.id, r.receiver>>
    [] table = "ghosts" -> r
    [] table = "messages" -> <<r.receiver, r.id, r.part>>
    [] table = "reactions" -> <<r.receiver, r.msg, r.part, r.sender, r.emoji>>
    [] table = "users" -> r.mxid
    [] table = "logins" -> r.id
    [] table = "places" -> <<r.mxid, r.login, r.portal, r.receiver>>

ReferencesHold(t) ==
  /\ \A m \in t.messages : HasPortal(t, m.chat, m.receiver) /\ m.sender \in t.ghosts
  /\ \A r \in t.reactions :
       /\ HasMessagePart(t, r.msg, r.part, r.receiver)
       /\ HasPortal(t, r.chat, r.receiver) /\ r.sender \in t.ghosts
  /\ \A l \in t.logins : \E u \in t.users : u.mxid = l.mxid
  /\ \A p \in t.places : HasPortal(t, p.portal, p.receiver)
                         /\ [id |-> p.login, mxid |-> p.mxid] \in t.logins

(* Each insert of the rows row[x] into the table is accepted. *)
Accepted(table, row, after) ==
  /\ \A x, y \in DOMAIN row : x # y => Key(table, row[x]) # Key(table, row[y])
  /\ \A x \in DOMAIN row : \A r \in txn[table] : Key(table, row[x]) # Key(table, r)
  /\ ReferencesHold(after)

(***************************************************************************)
(* Run.                                                                    *)
(***************************************************************************)

(* targetHasExistingData does not count user_portal. *)
HasData(t) == \E table \in Tables \ {"places"} : t[table] # {}

(* The emptiness check is made inside the transaction. *)
Begin ==
  /\ step = 0 /\ runs < MaxRuns
  /\ runs' = runs + 1
  /\ opts' \in [force : BOOLEAN, dry : BOOLEAN]
  /\ warned' = {}
  /\ \/ /\ opts'.force \/ ~HasData(target)
        /\ step' = 1 /\ txn' = target /\ outcome' = "running"
     \/ /\ ~opts'.force /\ HasData(target)
        /\ outcome' = "refused" /\ UNCHANGED <<step, txn>>
  /\ UNCHANGED <<src, target, migrated, bares>>

Rollback(why) ==
  /\ step' = 0 /\ txn' = Empty /\ outcome' = why
  /\ UNCHANGED <<src, target, opts, warned, migrated, runs, bares>>

(* Migrator n inserts the rows row[x] and warns of the skipped ones. *)
Insert(n, table, row, skipped) ==
  LET after == [txn EXCEPT ![table] = @ \cup {row[x] : x \in DOMAIN row}]
  IN  /\ step = n
      /\ \/ /\ Accepted(table, row, after)
            /\ txn' = after /\ step' = n + 1
            /\ warned' = warned \cup {<<table, x>> : x \in skipped}
            /\ UNCHANGED <<src, target, opts, outcome, migrated, runs, bares>>
         \/ ~Accepted(table, row, after) /\ Rollback("conflict")

(* An id without the prefix of a DM or a space is skipped. *)
MigratePortals ==
  LET taken == {p \in src.portals : p.kind # "invalid"}
  IN  Insert(1, "portals", [p \in taken |-> p], src.portals \ taken)

MigrateGhosts == Insert(2, "ghosts", [p \in src.puppets |-> p.id], {})

MigrateMessages ==
  LET taken == {m \in src.messages :
                  /\ m.id # None
                  /\ HasPortal(txn, m.chat, m.receiver)
                  /\ m.sender # None /\ m.sender \in txn.ghosts}
  IN  Insert(3, "messages", [m \in taken |-> MessageRow(m)], src.messages \ taken)

(* Mutant: the source message is taken for migrated. *)
MigrateReactionsUnchecked ==
  LET taken == {r \in src.reactions :
                  /\ r.msg # None /\ r.sender # None /\ r.emoji # None
                  /\ FirstRow(r) # {}
                  /\ HasPortal(txn, r.chat, r.receiver)
                  /\ r.sender \in txn.ghosts}
  IN  Insert(4, "reactions", [r \in taken |-> ReactionRow(r)], src.reactions \ taken)

MigrateReactions ==
  LET taken == {r \in src.reactions :
                  /\ r.msg # None /\ r.sender # None /\ r.emoji # None
                  /\ FirstRow(r) # {}
                  /\ HasMessagePart(txn, r.msg, ReactionPart(r), r.receiver)
                  /\ HasPortal(txn, r.chat, r.receiver)
                  /\ r.sender \in txn.ghosts}
  IN  Insert(4, "reactions", [r \in taken |-> ReactionRow(r)], src.reactions \ taken)

(* It warns of the double-puppet tokens of users it does not know. *)
MigrateUsers ==
  Insert(5, "users", [u \in src.users |-> UserRow(u)],
         {p \in src.puppets : p.owner # None /\ \A u \in src.users : u.mxid # p.owner})

(* No account or no cookies: no login, and no warning.  Cookies that lack  *)
(* a required key are copied all the same.                                 *)
MigrateUserLogins ==
  LET had == {u \in src.users : u.gcid # None /\ u.cookies # None}
      taken == {u \in had : u.cookies # "invalid"}
  IN  Insert(6, "logins", [u \in taken |-> LoginRow(u)], 
             {u \in had : u.cookies \in {"invalid", "partial"}})

MigrateUserPortals ==
  LET dms == {p \in src.portals : p.kind = "dm"}
      taken == {p \in dms :
                  /\ OwnerOf(p) # {}
                  /\ \E l \in txn.logins : l.id = p.receiver
                  /\ HasPortal(txn, p.id, p.receiver)}
  IN  Insert(7, "places", [p \in taken |-> PlaceRow(p)], dms \ taken)

(* Mutant: the dry run's sentinel is taken for success inside DoTxn. *)
FinishAlwaysCommits ==
  /\ step = 8
  /\ step' = 0 /\ target' = txn /\ txn' = Empty
  /\ outcome' = (IF opts.dry THEN "dry" ELSE "committed") /\ migrated' = ~opts.dry
  /\ UNCHANGED <<src, opts, warned, runs, bares>>

(* errDryRun makes DoTxn roll back; otherwise DoTxn commits. *)
Finish ==
  /\ step = 8
  /\ \/ opts.dry /\ Rollback("dry")
     \/ /\ ~opts.dry
        /\ step' = 0 /\ target' = txn /\ txn' = Empty
        /\ outcome' = "committed" /\ migrated' = TRUE
        /\ UNCHANGED <<src, opts, warned, runs, bares>>

(* A query or a commit fails, or the process dies. *)
Fail == step > 0 /\ Rollback("failed")

(* "bridgev2 creates bare `user` rows on first bot contact". *)
BotContact(u) ==
  /\ step = 0 /\ bares < MaxBare
  /\ \A r \in target.users : r.mxid # u
  /\ bares' = bares + 1
  /\ target' = [target EXCEPT !.users = @ \cup {[mxid |-> u, token |-> FALSE]}]
  /\ UNCHANGED <<src, txn, step, opts, warned, outcome, migrated, runs>>

Next ==
  \/ Begin \/ Finish \/ Fail
  \/ MigratePortals \/ MigrateGhosts \/ MigrateMessages \/ MigrateReactions
  \/ MigrateUsers \/ MigrateUserLogins \/ MigrateUserPortals
  \/ \E u \in Users : BotContact(u)

Spec == Init /\ [][Next]_vars

(***************************************************************************)
(* Properties.                                                             *)
(***************************************************************************)

(* When a run has committed, every Python row is in the target or was      *)
(* warned of, but for the accounts without cookies (docs/migration.md,     *)
(* caveat d).  A reaction is skipped only if the row it was made on, its   *)
(* sender or its emoji is missing, and else it is on the part made from    *)
(* that row.                                                               *)
NothingLostSilently ==
  outcome = "committed" =>
    /\ \A p \in src.portals :
         \/ <<"portals", p>> \in warned
         \/ /\ HasPortal(target, p.id, p.receiver)
            /\ \/ p.kind # "dm" \/ <<"places", p>> \in warned
               \/ \E x \in target.places : x.portal = p.id /\ x.login = p.receiver
    /\ \A p \in src.puppets :
         /\ p.id \in target.ghosts
         /\ p.owner # None /\ <<"users", p>> \notin warned =>
              \E u \in target.users : u.mxid = p.owner /\ u.token
    /\ \A m \in src.messages :
         \/ <<"messages", m>> \in warned
         \/ \E x \in target.messages : x.id = m.id /\ x.chat = m.chat /\ x.mxid = m.mxid
    /\ \A r \in src.reactions :
         LET on == {m \in target.messages : \E first \in FirstRow(r) : m.mxid = first.mxid}
         IN  IF on # {} /\ r.emoji # None /\ r.sender # None /\ r.sender \in target.ghosts
             THEN \E x \in target.reactions, m \in on :
                    /\ x.sender = r.sender /\ x.emoji = r.emoji
                    /\ x.msg = m.id /\ x.part = m.part
             ELSE <<"reactions", r>> \in warned
    /\ \A u \in src.users :
         /\ \E x \in target.users : x.mxid = u.mxid
         /\ u.gcid # None /\ u.cookies # None /\ <<"logins", u>> \notin warned =>
              LoginRow(u) \in target.logins

(* "skips the row instead of aborting" (message.go, portalExistsInTarget): *)
(* no Python database, however its rows dangle, makes a run into an empty  *)
(* target break one of the target's keys or references.                    *)
SourceAlwaysFits == outcome = "conflict" => opts.force

(* The target changes at most once, by a complete run that was no preview; *)
(* apart from the rows the bridge itself writes.  "cannot be re-run over   *)
(* an already migrated database" (docs/migration.md), not even by force.   *)
NoUsers(t) == [t EXCEPT !.users = {}]
ChangesOnce ==
  \/ NoUsers(target') = NoUsers(target) /\ target.users \subseteq target'.users
  \/ ~migrated /\ outcome' = "committed" /\ ~opts.dry
AllOrNothing == [][ChangesOnce]_vars
=============================================================================

# mautrix-googlechat in TLA+

A model of the moving parts of the Google Chat bridge: how a login follows its event log, how the
webchannel under it keeps its sessions and numbers, how the connection is supervised, how messages,
edits, invites and spaces go back and forth between Matrix and Google Chat, how text is converted,
and how the old bridge's database is imported. TLC checks the modules on small instances, TLAPS
proves the central properties for every value of the constants. `PROJECT.json` lists components,
runs, mutants, the map from definitions to source lines, findings, hazards and theorems.

    tlc -workers 2 -config EventStream.cfg MCEventStream.tla     # model-check
    tlapm EventStreamProofs.tla                                  # check the proofs

## 1. The system

The bridge is one Go process. `pkg/gchatmeow` is a Google Chat client, `pkg/connector` puts it
under the mautrix `bridgev2` framework, `pkg/msgconv`, `pkg/gcid` and `pkg/migrate` are helpers
without shared state.

| Component | State it keeps | Operations | Talks to |
|---|---|---|---|
| Event delivery and catch-up (`connector/events.go`, `backfill.go`, `sync.go`) | `UserLoginMetadata.Revision`, `initialSyncDone`, `syncInProgress` | live events, `catchUp` drains, `syncChats` | callbacks of the client; API calls; metadata saves; bridgev2 queue |
| Webchannel (`gchatmeow/channel.go`) | `sid, aid, ofs, rid` under `mu`; `sendMu`; Listen's `retries`, `isConnected`, `onConnectCalled` | register, long poll, adopt a SID (ack, ping), hand arrays on, POST stream events | HTTP; `OnReceiveArray`, `OnConnect`, `OnReconnect`, `OnDisconnect` |
| Connection supervisor (`gchatmeow/client.go`, `auth.go`) | XSRF token and its age, `cancel`, `channel`; locals `resyncCount`, backoffs, `authFailures` | `Connect` loop, `xsrfRefreshLoop`, `Disconnect` | Channel.Listen; `OnConnectionState` |
| Client lifecycle and login (`connector/client.go`, `login.go`, `connector.go`) | `conn`, `loggedOut`, cached state, cookies in the metadata | `Connect`, `wireAndStart`, state callback, `Disconnect`, `LogoutRemote`, `SubmitCookies` | supervisor; bridgev2 |
| Chunk framing (`chunkparser.go`) | a byte buffer | `Feed` | Channel |
| HTTP session, cookies (`session.go`, `cookies.go`) | cookie jar | `Fetch`, `FetchRaw`: retries, timeouts, 429 | everything above |
| API calls, media (`api.go`, `upload.go`, `download.go`, ...) | none | one request each | session |
| Matrix to Google (`handlematrix.go`, `handleedit.go`, `handlereaction.go`, `handleredact.go`, ...) | pending echoes in bridgev2, `LastEditTime` of messages | sends, edits, reactions, redactions, receipts | API; events coming back as echoes |
| Rooms and membership (`invites.go`, `leave.go`, `createspace.go`, `handlemembership.go`, ...) | `PendingInvites`, portals | invites, leave with several logins, space creation | API; bridgev2; events |
| Formatting, ids, migration (`msgconv`, `gcid`, `migrate`) | none; the target database | pure conversions; one copy in one transaction | |
| Generated protobuf, pblite codec, program entry | none | | |

How they interact. bridgev2 calls `GChatClient.Connect`, which builds a `gchatmeow.Client` and
starts its `Connect` goroutine. That goroutine gets an XSRF token, runs `Channel.Listen`, and in
it every callback: arrays become events for `handleGChatEvent`, one body after another, and state
changes go to `handleConnState`, which saves cookies and starts `syncChats` (first Connected of a
connection) or `catchUp` (later ones) as goroutines. A second goroutine of the client,
`xsrfRefreshLoop`, reports states too. Bridge goroutines call `Disconnect`, `LogoutRemote`,
`SendStreamEvent` and the Matrix handlers at any time.

What is hard about it: live events and drains move one watermark; a first sync switches drains off
by a flag that several syncs share; a poll can drop anywhere between an array's arrival and its
acknowledgement, and senders race the change of session; two goroutines report states of one
connection, and connections are replaced while a callback of the old one is under way; the process
may die between any change in memory and its save. The `hazards` of `PROJECT.json` list these at
their lines, with the property that would see each of them go wrong.

What would make each component correct: the watermark never passes what was not handled and never
moves back; a drain that completes missed nothing; catch-up is never disabled for good; every drain
ends (event delivery). Arrays are handled once and in order, and acknowledged only after they were given on or could not be
decoded;
POSTs keep the order the server insists on; no path leaves a lock held (webchannel). A connection
that is cancelled ends; one that ends by itself says so; a logout stays a logout (supervisor,
lifecycle). An echo never doubles a message; a second copy exists
only where an answer was lost; the room ends at the last text of a message (Matrix to Google). An invite
or a membership that found nothing on its way is answered or ended only as the user does it; a multi-login leave tells the truth; a created space gets
one room (rooms). A stream cut anywhere parses to the same chunks (framing). Text and markup arrive
whole in both directions (formatting). An import copies or names every row, once, or changes
nothing (migration).

## 2. Modules

| Module | What it is |
|---|---|
| `EventDelivery` | Abstract specification: what the saved watermark of a login may do. No streams, drains or goroutines. |
| `EventStream` | Live stream, watermark, drains, first sync, crashes. Implements `EventDelivery` with `mark <- saved`. |
| `MCEventStream` | Gives `NBodies` its values for TLC. |
| `Channel` | One webchannel: Listen and the senders. |
| `Connection` | Supervision loop, refresh loop, state callback, bridge calls, for the connections of one `GChatClient`. |
| `Rpc` | Abstract specification: what an API call promises its caller. |
| `Requests` | The retry loop of a call. Implements `Rpc`. |
| `Sends` | Matrix messages and their echoes, over `Requests`. |
| `Updates` | Edits, reactions and deletions from both sides, over `Rpc`. |
| `Invites` | One login's membership of one space, in Google Chat and in Matrix. |
| `Spaces` | Creating a space from Matrix, and leaving one with several logins. |
| `Migrate`, `MCMigrate` | The import of the Python bridge's database; the databases TLC tries. |
| `Framing` | The chunk parser. |
| `Annotations` | A Google Chat message turned into Matrix HTML. |
| `MatrixHtml` | A Matrix message turned into text with annotations. |
| `MCConversions` | The last three on every small input, with their properties. |
| `*Proofs` | Proofs about `EventStream`, `Channel` (with `Framing`), `Connection`, `Sends` (with `Requests`), `Updates`, `Invites` (with `Spaces`), `Migrate`, `Annotations`. |

How they compose. `EventStream`, `Channel` and `Connection` meet at the state callback: what
`Channel` returns from `Listen` (`result`) is what `Connection` lets Listen return, each as an
action; `Connected` and `Disconnected` of `EventStream` are the reports `Connection` makes. They
are checked apart because their product is far out of reach. `Sends` extends `Requests`: a message
sees every attempt of its call. `Updates` extends `Rpc` instead, which `Requests` is shown to
implement (`CallPromise`), and is so spared the retries. The entities `MatrixHtml` makes lie within
the text (`AnnotationsFollowTheTree`), the first of the conditions under which `Annotations` renders
all markup (`MarkupKept`).

### EventStream

Events are the numbers `1..MaxPosted` of the user revision; `NBodies[e]` is what
`splitEventBodies` makes of event `e`. `rev` is `Revision` in memory, `saved` the one in the
database. `live`, `liveBody` say where the stream stands; `drain[d]` holds the locals of a
`catchUp` (its own cursor, the page, the body it is at, the pages asked); `sync[s]` a `syncChats`.
`handled`, `failed` and `liveHigh` are history.

`LiveEvent` is one body through `onReceiveArray` and `handleGChatEvent`; `Connected` the whole of
`handleConnState` for Connected, with the save in `persistCookies`; `DrainStart`, `DrainFetch`,
`DrainReplay`, `DrainPageDone` the stages of `catchUp` between which another goroutine can run;
`SyncFails` and `SyncFailedReturns` are the two halves of the error return of `syncChats`, whose
latch reset and deferred flag reset are apart. `Restart` throws away what was not saved. Google is
external: it posts events (`Post`), and `Connected` lets a new session go on at any event up to the
present. Nothing in the repository says that Google replays what a lost session had not delivered,
so in the model it need not.

### Channel

`pc` is the point in `Listen` (register, poll, adopt, ack, ping, read, hand on, record), `sender[s]`
that of a call of `SendStreamEvent`. `mu` is held for single steps and is not a variable; `sendMu`
is, since it is held over whole requests. Sessions are numbered as the server opens them, arrays
within a session. `pinged`, `wire`, `handled`, `given`, `skipped`, `toldSid` are history: sessions
whose initial ping was accepted, the last POST on the wire, the last array given to
`OnReceiveArray`, all that were given to it and all that could not be decoded in this session, the
session `Connected` was last reported in. An undecodable array is skipped, and the number of a later
one acknowledges it along; so `AckedIsHandled` promises the arrays that can be read, no others. A fault is one of: a network error, a truncated body, an unknown
SID, a bad status, an undecodable array, a cancelled context.

What the server does is external and as weak as the code allows, with two facts the code states
itself: it streams nothing to a session that was not pinged, and it goes on after the AID it is
given.

### Connection

`loop[c]`, `xsrf[c]` are where the two goroutines of connection `c` stand, `cb[c][r]` the state
callback one of them is in: the comparison with the current connection (`CbCheck`), the report
(`CbReport`), `persistCookies` (`CbPersist`), the latch (`CbLatch`) are steps of their own, because
a bridge goroutine can replace the connection between them. `caller[k]` is a bridge call in
`wireAndStart` (reset the latch, swap, disconnect the old, start), `Disconnect` or `LogoutRemote`.
`Listen` appears only as what it reports and returns.

### Rpc and Requests

`Rpc` is the view of the handlers: a call puts requests on the wire, which the server may carry out
more than once and after the caller gave up; success implies that it was carried out at least once,
failure implies nothing. `Requests` is `Session.fetch` under `doRequestWithPolicy`: `tries` the
attempts of this round, `round` 2 once the token was refreshed after a 401, `wire` the attempts the
server has not taken, `done` those it carried out, `reply` the status line of the attempt in
progress. Every class of answer is an action: success, an answer whose body is lost, 429, 5xx,
401, another status, no answer at all. `doRequestNonIdempotent` only differs in the 5xx.
`seen` is history.

### Sends

`handler[m]` is where `HandleMatrixMessage` and its caller stand, `pending` the local_ids
that bridgev2 ignores, `rows` the copies with a row. A copy `<<m, n>>` is what attempt `n` made
on Google Chat; `dedups` leaves open whether Google drops a second request with a known local_id.
`ServerPosts` may come at any time, after the timeout of the attempt too. `EchoArrives` is the
check of the pending set in `queueMessagePosted`, `EchoHandled` the later one of the row in the
portal; between them the handler may finish. `Crash` loses `pending` and the handlers, not rows.

### Updates

`log` holds the events of one message; `pos` is the live stream, `drain` the stretch a `catchUp`
still has to replay. `ServerPerforms` is Google carrying out a Matrix change, `GoogleChange` one of
another client; both append an event. `MessagePosted`, `MessageEdited`, `MessageReaction`,
`MessageDeleted` are the conversions of `events.go` with the checks that bridgev2 makes
against `row`, `reactRow` and the `lastEdit` of the row. `Emptied` is an edit that takes all text away;
`MessageEdited` ignores it and leaves `lastEdit` alone, so `text` is the last edit that left a text, and
that is what `EditsConverge` promises the room. `EditSent`, `ReactionSent`, `DeleteSent`,
`NotSent` are the returns of the Matrix handlers. The portal does one thing at a time (`Idle`).

### Invites

`member`, `log` are Google Chat's; `pos`, `pending`, `saved` the login's; `queue`, `room` the
portal's; `rpc` is the request `HandleMatrixMembership` waits for. The bridge's own join or leave
of the double puppet puts an entry behind the portal's queue that differs from the user's
in history only (`"echo"` against `"accept"`); without a double puppet there is none. A membership
`Begins` with an `Invite`, or with `Added`, when a manager adds the user directly; `AcceptElsewhere` and
`LeaveElsewhere` stand for other clients and for managers. `accepted` and `refused` tell what the user has done in the
room since it began (in `log` at `since`), and `settled` whether nothing was on its way then and no drain
has replayed an event from before. `SyncFetch` and `SyncApply` are apart, since the chat
list may be old when it is applied. Every save may fail; `Restart` goes back to `saved`.

### Spaces

`creating` walks through `CreateGroup`: power level, create_group, binding of the room, invitations
one after another, return. Each step can fail, none is undone, and `PortalSync` may make a room of its
own in between. `leaving` walks through the leave command: `LeaveLogin` for each login found, `AllTried`,
`ForgetRow`, `Evict`. A failed request may have taken effect. Logins join elsewhere, and the
command may be given again.

### Migrate

One action per migrator, in the order of `Run`, within one transaction `txn`; `Begin` has the
emptiness check, `Finish` the commit or the dry run's rollback. `Accepted` is the target's primary,
unique and foreign keys: a row that breaks one ends the run with the outcome "conflict". `Fail` is
an error or a kill at any step. `BotContact` is the bridge writing a `user` row between the runs.

### Framing, Annotations, MatrixHtml

`Framing` has bytes by class: digits, newline, a letter, the first byte of a two-byte rune (one
UTF-16 unit) and of a longer one (two), a continuation byte. `Feed` appends a read; a pass of its
loop is `DropByte`, `CutChunk` or `FeedReturns`. What the passes compute with loops of their own is
said by what it finds: the digits a line begins with, the one rune a buffer can end within, the first
end of a rune with enough units. `FramesFrom` frames the whole body at once, by a recursive function
of the place, and is the reference.

`Annotations` keeps what makes `renderAnnotations` hard: the splitting writes through pointers and
the recursion shares its slices. Annotations are places in a `heap`, a slice is a sequence of places,
and the recursion is a stack `calls`, each call with its locals: `Cut`, `Insert`, `Advance` and
`Normalized` are the passes of `normalizeAnnotations`, `Skip`, `OutOfBounds`, `Enter` and `Return` those
of the loop of `renderAnnotations`. On `Return` the caller's slice is what the nested call's sort made of
it (`SliceAfter`), unless that worked on an array of its own. A rendering is a sequence of units,
opening tags, pills and names, each with the annotations whose tags surround it. `Entity` has the three
outcomes of `renderMention`: a pill, the name alone ("named"), or the text as it is ("unknown"). `Finish`
is the end of `Parse`: an empty rendering makes it fall back to the text, like a failed one.

`MatrixHtml` takes a tree as its nodes in document order with their depths, restricted to the shapes
the HTML parser leaves (`Fits`). Every node becomes a text with entities, and the operations of
`EntityString` (`Part`, `Concat`, `Format`, `TrimSpace`, `Lines`, `Join`, `Indent`) shift and cut them. An
entity's value is the node it was made for. Bold, italic, colours and links are one kind; the
numbers of an ordered list are a fixed mark.

## 3. Runs

Passing runs:

| Run | Instance | Shows |
|---|---|---|
| `event_stream` | 3 events, the second with two bodies, 2 drains, 2 syncs, pages of at most 2 events, `catchUpMaxPages` = 2, 3 faults of any kind; 770,681 states | `DrainSkipsNothing`, `CompletedDrainIsComplete`, `FlagHasAnOwner`, `DrainsEnd`, and that the saved watermark implements `EventDelivery` (`WatermarkPromise`) |
| `channel` | 2 senders, 3 sends, 3 sessions of 2 arrays, 1 retry, 3 faults of any kind; 564,271 states | `WireInOrder`, `HandledOnce`, `AckedIsHandled`, `SendsReturn` |
| `connection` | 1 connection, the code's limits (3 resyncs, 2 refusals), 2 bridge goroutines; 877,690 states, no deadlock | `LoggedOutStaysOut`, `EndIsReported`, `CancelledEnds` |
| `sends` | 1 message, 2 attempts before and 2 after a 401, 2 deliveries of each echo, 1 crash; 43,996 states | `AnsweredIsLast`, `ShownOnce`, `CopiesAreExplained`, `PendingHasOwner`, `SendsEnd`, and that `Requests` implements `Rpc` (`CallPromise`) |
| `updates` | 2 Matrix changes of any kind, each sent up to twice, a log of 4 events, 1 reconnect with a drain from any point; 8.5 million states | `EditsGoForward`, `EditsConverge`, `OtherChangesConverge` |
| `invites` | 2 invites, 7 membership events, a replay, a chat-list sync and a restart at any time; 7.0 million states | `PendingIsTheInvite`, `NeverAcceptsUnasked`, `NeverLeavesUnasked` |
| `spaces` | 2 logins, 2 invitees, 2 leave commands, 2 later joins; 18,981 states | `CreationInOrder`, `EvictedOnlyIfAllLeft` |
| `migrate` | every database of `MCMigrate`, 2 runs with any options, 1 bare user row; 3.75 million states | `NothingLostSilently`, `SourceAlwaysFits`, `AllOrNothing` |
| `conversions` | bodies of up to 5 bytes in reads of 1 to 3; 3 units under up to 4 annotations that `MarkupKept` speaks of, 3 if some are mentions without a pill, or 2 of any kind, out of bounds included; trees of up to 5 nodes, 3 if they have `p`, `header`, `div`, `hr`, `span` or `mailto:`; 1.9 million states | `FramesOfTheBody`, `TextRenderedOnce`, `MarkupKept`, `AnnotationsFollowTheTree` |

Why the bounds are enough.

* `event_stream`: two drains overlap each other and the stream, an event is left half handled, a
  page is partial, a drain runs into the page limit, and a drop, a crash and a failure can all fall
  into one behaviour.
* `channel`: a sender can hold a number of one session while the next is opened, twice, with another
  sender waiting; the retry limit is reached; three faults let a session fail at two places and the
  channel end.
* `connection` has the limits of the code itself. Two connections make sixteen million states, too
  many for a run; its safety properties are proved for any number.
* `sends`: with two attempts per round there is a first, a middle and a last one, on both sides of
  the token refresh. The three of the code give 2.4 million states and nothing new. A message does
  not interact with another one but through the pending set, which the proofs treat for any number.
* `updates`: two changes of one kind race each other and a change on Google Chat, a failed call is
  carried out once or twice, and the drain overlaps live events on both sides.
* `invites`: the second invite (or direct add) is what an old echo, replay, sync or answer can be mistaken for.
* `spaces`: with two logins one leaves and the other fails, then the command is repeated.
* `migrate`: the rows of `MCMigrate` have each of the defects the migrators look for, and two message
  rows suffice for a group with several parts. The second run meets an empty, a full or a bare target.
* `conversions`: three annotations are the least with which a nested call changes what its caller
  still has to do, four the least with which the splitting leaves out what overlaps under another
  and a nested call makes up for it; five bytes hold a frame and another that a rune is cut in; five
  nodes hold a list in a quote in a list, or a `<pre>` with two children and a format around it. One text content has
  white space at both ends, a line break inside, a letter and `@room`.

`TypeOK` is checked wherever a run has a state beyond its input; `migrate` leaves it to the
properties, `conversions` has none.

Every property has a mutant: a definition, marked `Mutant:` in its comment, that stands before the
one it would replace and changes it the way a slip in the code would. With the definition so
replaced, TLC finds the property violated.

### Violations

These runs show where the code and what is said of it disagree. Each checks one property that
states a sentence of the repository:

| Run | The sentence | What happens |
|---|---|---|
| `failed_live_event` | "so a failed event is re-fetched by the next catch_up" (events.go) | the next live event moves the watermark past the failed one |
| `stale_accept` | "Nothing is accepted on your behalf: the room stays an invite until you act on it." (CHANGELOG) | the echo of an old join of the bridge's own (the user was added) is handled when a new invite is pending, and accepts it; no fault is needed |
| `plain_markup` | normalizeAnnotations "splits overlapping spans so they nest" (convert.go) | under a link or a format that is rendered as its text, a part of the text loses its formats: the nested call cut them short in the shared slice, and what it rendered is thrown away |

Ten further properties state such a sentence, do not hold, and stand in the modules without a run.
Each can be seen by putting its name under `INVARIANT` or `PROPERTY` in the module's `.cfg`:

| Property | The sentence | What happens |
|---|---|---|
| `SyncRaisesTheFlag` (`EventStream`) | "a quick reconnect can't race an unfinished first sync" (client.go) | a failed sync resets the latch first and the flag, by then another sync's, later |
| `DowntimeIsReplayed` (`EventStream`) | "Missed-event catch-up after bridge downtime" (ROADMAP) | the first Connected of a process starts syncChats, not catchUp |
| `GapIsReplayed` (`EventStream`) | "On reconnect, catchUp replays missed events" (ARCHITECTURE) | catchUp reads the watermark after a live event has moved it past the gap |
| `ReadIsPinged` (`Channel`) | "without it the server never streams events" (channel.go) | a failed ack leaves the SID installed; the retry skips ack and ping |
| `GapIsReported` (`Channel`) | "Events during a reconnect gap are not replayed; the connector must catch up" (gchatmeow/client.go) | a re-registration after a truncated body reports nothing |
| `LatchIsNotStolen` (`Connection`, with `MaxConns = 2`) | "A superseded connection can no longer steal the initial-sync latch" (CHANGELOG) | the comparison comes before the latch is taken |
| `RefusedStaysTold` (`Connection`) | "BAD_CREDENTIALS, user re-logs in" (ARCHITECTURE) | the other goroutine's Transient is applied last |
| `InBoundsRenders` (`Annotations`; `MaxMixed = 3` and four units) | "splits overlapping spans so they nest" (convert.go) | a chip over text that holds another annotation and overlaps a third makes the whole message lose its HTML |
| `HiddenStaysHidden` (`Annotations`) | "Don't append the text -- it's meant to be invisible." (convert.go) | a message that is hidden as a whole has an empty rendering, and is shown as plain text |
| `PreIsWhole` (`MCConversions`) | "unwrapping a sole `<code>` child" (html.go) | of `<pre><code>a</code>b</pre>` only "a" is sent |

`DowntimeIsReplayed` and `GapIsReplayed` are liveness and belong under `FairSpec`, the others are
safety.

Findings that no property states as such:

* "Never retried: after a 5xx the space may already exist" (createspace.go:114, api.go:235): a call
  that creates something is still repeated after a transport error, after a body that could not be
  read, and after a 401. `CopiesAreExplained` says exactly when a second copy can exist.
* `main.go:86` prints the summary, "[COMMITTED]" and counts, before it looks at the error of the run.
* `--migrate-force` is offered for targets with a bare `user` row, but conflicts if that row belongs
  to a user of the Python database. `SourceAlwaysFits` excepts force for that reason.

Seen while modelling, with no sentence of the repository against it:

* Events. When the first body of an event succeeds and a later one fails, the watermark is already at
  the event, so the stop of the drain no longer keeps it for the next (`backfill.go:74`). A live
  deletion handled inside a drain lets the drain post the message again (`OtherChangesConverge`
  excepts such a race through `raced`).
* Connection. A `Disconnect` between `wireAndStart`'s `go conn.Connect` and the goroutine's first
  step finds no cancel function, and the superseded connection lives on. `reportBridgeState` caches
  a state and sends it in two steps, so that two goroutines can leave the two different.
* Edits. An edit that takes all text away is ignored on purpose (`msgconv_adapter.go:84`): the room keeps
  showing the text that is gone on Google Chat.
* Invites. A withdrawn invite leaves the Matrix room an invite, and accepting it is silently a no-op.
  A save that failed in `addPendingInvite` is not repeated when the event is delivered again. An
  old chat list drops a new pending invite. Echoes that are late do harm in both directions: besides
  `stale_accept`, a leave that the bridge mirrored for a removed user takes him out again if he was invited and
  has joined meanwhile. A drain that replays the events of an earlier membership has the bridge perform its join
  or leave again, with the same effect. `NeverAcceptsUnasked` and `NeverLeavesUnasked` therefore
  speak of a membership that is `settled`.
* Leaving. A repeated command calls `removeMember` for a login that is out already; logins without a
  `user_portal` row are not left.
* Framing. A length above the largest int stalls the parser until the poll ends.
* Google Chat to Matrix. A truncated mention beyond the text is pilled but not pinged; a mention that a format or a chip
  overlaps is pilled twice; one of length zero at the end is pinged and not pilled.
* Matrix to Google Chat. White space at the edge of an inline element is trimmed (`<b>Hello </b>world` arrives as
  "Helloworld"); an empty format leaves an annotation of length zero; a mention that a line break
  splits inside a quote or an ordered list becomes two; formats inside a pill are dropped.

## 4. Fairness

Safety is checked under `Spec`, liveness under `FairSpec`.

* Goroutines run: weak fairness on their actions. Go's scheduler starves none.
* Requests are answered or fail. The API client has timeouts. The poll client (`session.go:100`)
  has none for the response header, so for the poll, the ack and the POSTs this is an assumption
  on the server and the network, not a consequence of the code; hazards list it.
* A Go mutex hands over to the goroutine that waited longest, hence strong fairness on `SendLock`
  and `Adopt`.
* `ListenCancelled` is strongly fair: a Listen whose context is over returns the next time it
  waits, however often it reports in between.
* The supervisor reconnects (`WF(Connected)` in `EventStream`), as `Connection` shows it does for
  as long as nobody ends it.
* `sends`: weak fairness on the call and the handler of every message. The API client has a
  timeout, so an attempt ends whatever Google does; of Google nothing is assumed.
* Google, faults and bridge calls are not fair. In `connection` nothing forces `Listen` to return.
* `updates`, `invites`, `spaces`, `migrate` and `conversions` check safety only.

## 5. Proofs

All proofs rest on the named assumption of the module they are about (`ConstantsAssumption`,
`RequestsAssumption` and `SendsAssumption`, ...) and nothing else. Bounds
(`MaxPosted`, `MaxSids`, `MaxConns`, ...) are arbitrary naturals in the proofs.

* `EventStreamProofs`. `IInv` adds to `TypeOK`, `DrainSkipsNothing` and an invariant of the stream
  (`LiveOK`) the statement `DrainOK` about the locals of each drain: at every stage the bodies
  between the drain's start and the point it has reached are handled, and the watermark is not
  below that point. `CompletedDrainIsComplete` says something only of a drain that ended, so it is not
  inductive; `DrainOK` is its extension to a drain that is under way. Theorems: `TypeCorrect`,
  `WatermarkSound`, `DrainsComplete`, `CatchUpComesBack`, and the refinement `KeepsThePromise`,
  where `LiveEvent` and `DrainReplay` map to `Handle` or a stutter, and every other save
  to `Persist`.
* `ChannelProofs`. `IInv` adds to `TypeOK` where Listen stands (`ListenOK`), who holds `sendMu`
  (`MutexOK`), that `aid` is the last array handled in this session and every one up to it, and up to the
  one the server sends next, was given on or skipped (`ArraysOK`), that the counters
  are ahead of the wire (`WireOK`) and that a POST which has its numbers but is not out yet is
  ahead of it too (`PostsOK`). The last is what `sendMu` is for: without it `WireInOrder` is not
  inductive and, as the mutant shows, not true. Theorems: `TypeCorrect`, `AcksAreHonest`,
  `ArraysHandledOnce`, `PostsInOrder`.

  Of the chunk parser, `FramesOfTheBody` speaks of what has been read when `Feed` has returned.
  `FramingInv` says it for every body that begins with what has been read, at every pass of the loop: its
  frames are the chunks found and those from the place where the buffer begins. It rests on
  `DecodeSettled`: what follows the bytes read so far changes no rune of their decoded prefix, since
  the only rune it could complete is held back (the mutant that decodes the whole buffer breaks
  just this). From there on the line and the units found in the buffer are those of the whole body
  (`LineFacts`, `LengthFound`, `SettledUnits`), so that a pass that drops a byte skips what begins
  no frame (`DropIsSkip`), one that cuts a chunk takes the next frame (`CutIsFrame`), and a body in
  which `Feed` waits has no further one (`WaitIsEnd`). The reference is a recursive function: that
  it exists, and is what its body says (`FramesEq`), is shown from the end of the text down. Bytes,
  reads and `MaxInt` are arbitrary. Theorem: `FramesOfTheBodyHolds`.
* `ConnectionProofs`. `LoggedOutStaysOut` is inductive by itself. `EndIsReported` needs that a
  callback belongs to a loop that waits for it and that one which ends the loop carries bad
  credentials (`CallbacksOK`), that a running connection is not ignored (`LoopsOK`, `CallsOK`: once
  a connection may start, `conn` is set) and the same statement from the decision to return
  on (`Ended`). Theorems: `TypeCorrect`, `LogoutIsKept`, `EndsAreReported`.
* `SendsProofs`. `RInv` is about `Requests`: attempts are counted (`CountOK`), only attempts made are on
  the wire or done (`WireOK`), and what the client read of an attempt tells what the server did (`SeenOK`).
  `SInv` adds that a local_id is pending exactly while its handler works (`HandlerOK`), that copies
  come from attempts that were carried out (`CopiesOK`), and that a row stands for one Matrix event and no
  echo past the check belongs to a handler at work (`RowsOK`).
  From `RInv` alone: `AnswersEndSends` and the refinement `CallsKeepThePromise`.
  From both: `SendsTypeCorrect`, `PendingIsOwned`, `NoDoubles`, `DuplicatesExplained`. They hold for any
  set of calls, idempotent ones included, and any `maxRetries`.
* `UpdatesProofs`. No edit that left a text is newer than `text`, which is in the log (`LogOK`), an answer carries a time of the log
  (`CallOK`), one handler runs at a time (`OneHandler`), and the room shows the last edit that was
  handled unless its own was reported as failed (`ShownOK`). Theorems: `UpdatesTypeCorrect`,
  `TextNeverGoesBack`, `TextConverges`. Reactions and deletions carry no time, so `OtherChangesConverge`
  needs the order of the events besides (`Order`): what a drain still replays is the stretch before the
  stream (`DrainOrder`), a deletion ends the log and the last reaction in it says what Google Chat has
  (`LogOrder`), the row agrees as soon as no such event is to come (`DeletionTold`, `ReactionTold`), and
  what a running handler is about to store is what Google Chat has unless a later event is to come
  (`CallReacts`). Theorem:
  `OtherChangesConvergeHolds`.
* `InvitesProofs`. Neither property is about the present state alone: a request may be the late
  consequence of an event long past. The invariant says what is not on its way in a settled membership:
  while the invite waits, no event behind it, no entry and no request stands for a join, but for the user's own
  accept (`NoJoinOnItsWay`), and while he belongs to the space none stands for a leave, but for
  his own (`NoLeaveOnItsWay`); what was before is behind the watermark (`SinceOK`). Theorems: `InvitesTypeCorrect`,
  `NoAcceptUnasked`, `NoLeaveUnasked`. `PendingIsTheInvite` speaks of the quiet states only; `PInv`
  says for every state what is still on its way: the invite waits exactly if no later event of the log
  ends it (`LogTells`), `pending` agrees as soon as no such event is to come (`PendingTells`), and the room
  looks joined only of a member, or while a request, an event or an entry of the queue will change
  that (`JoinTells`). Theorem: `PendingIsTheInviteHolds`.
  Of `Spaces`, in the same module, `CreationOK` says what each stage of `CreateGroup` has done so far, `RoomOK` which
  room the portal has, `LeaveOK` that at every stage of the leave command the logins that are neither
  to be tried nor failed have left. Theorems: `SpacesTypeCorrect`, `CreationReported`,
  `LeaversHaveLeft`.
* `MigrateProofs`. The seven migrators are one step with a number `k`: which Python rows it takes
  (`Taken`) depends on the tables before its own. `IInv` says that in the transaction and in
  the target a table is empty until its migrator ran and holds exactly the rows of what it took
  afterwards (`Filled`; users may have rows besides), and that what it skipped was told (`Told`). That
  no run into an empty target is refused a row needs that the keys of what is taken differ
  (`KeysDiffer`; for messages the lemmas about `assignPartIDs`, `RankGrows` and `PartsDiffer`), and that
  the tables refer to each other (`References`). `FirstExists` is an induction over a finite set of rows,
  done by the well-foundedness of strict inclusion. From the source it is assumed what `PythonKeys` and
  `MessageTypes` say. Theorems: `MigrateTypeCorrect`, `SourceAlwaysFitsHolds`, `AllOrNothingHolds`,
  `NothingLostSilentlyHolds`.
* `AnnotationsProofs`. `TextRenderedOnce` speaks of the HTML, when the last call has returned.
  `IInv` says it of every call under way: what it has written is a rendering of the text from the
  start of its span to the place it has come to (`Rendered`: every unit in the range once and in order, none
  missing but what is hidden or behind a pill or a name, no tag that is not an annotation's over that unit,
  and nothing at all only where all is hidden, `Visible`), and every
  call stands at an annotation of its caller's slice, within the caller's span (`NestOK`). The heap may be
  cut and split in any way as long as each place is a part of the annotation it was cloned from
  (`PartOf`): that is all the proof needs of the splitting, so the text survives even where the
  markup does not. The lemmas say that renderings of adjoining stretches make one (`RenderedConcat`), that
  an entity around a rendering is one (`RenderedEntity`), and that the sort, defined by the ranks of the places,
  returns a sequence of the places it got (`SortedPlaces`). Text and annotations are
  arbitrary, negative and overlapping spans included. Theorem: `TextSurvives`.

  `MarkupKept` needs the splitting. `Cross` says that two annotations overlap and neither holds the
  other. One pass of the splitting does not remove every crossing: it jumps over what the first annotation
  holds, and leaves it to the nested call. What it leaves (`Clean`) is that whatever crosses is
  held by a third annotation, crossed by none itself, so that the walk never comes upon a crossing at its own
  depth. `MInv` says, for the call that splits (`SplitOK`), that the places done are clean and cross
  nothing that is to come, that the tails lie behind what is still to be split and do not cross each other, and
  that what lies beyond the call's text was made clean by its caller. For the call that walks (`WalkOK`)
  nothing to come straddles the place it has come to and the slice is in order from there on, as soon
  as a nested call has sorted it; for a call that waits (`WaitOK`) the same behind the annotation it
  waits for. `SliceOK` relates the slice of a call to the one its caller shares with it, which it re-sorts
  until it makes a copy of its own. No mark is lost at any of these points (`Marked`): over every unit to
  come, each annotation of the message has a part to come or is that of a call under way. `NextMarks`
  shows one action after the other that they keep `IInv /\ MInv`. The
  hypotheses are those of `MarkupKept`: `InBounds`, `ChipsCoverNothing`, `NonePlain`. TLC refutes the
  formula without the second (`InBoundsRenders`) and without the third (run `plain_markup`). That `Parse`
  falls back for an empty rendering only if every unit is hidden comes from `Visible`; without that
  exception the formula does not hold (`HiddenStaysHidden`).
  Theorem: `MarkupSurvives`.

Model-checked only:

* The liveness properties `DrainsEnd`, `SendsReturn`, `CancelledEnds`, `SendsEnd`: fairness is out of
  the provers' reach.
* `AnnotationsFollowTheTree`: `MatrixHtml` recurs over the tree, and induction over data is out of
  the provers' reach.
* The violations, which are counterexamples.

## 6. Not modelled

By size most of the repository is `googlechat.pb.go`: 27,525 of some 39,000 lines, generated message
types without behaviour. The map covers more than a third of the rest.

* The pblite codec: driven by the descriptors of those messages; what it does is a matter of data. A
  decoding failure is a fault in `Channel`.
* Media, up and down: chains of requests on one payload. Their failure is a refusal in `Sends`.
* Id mapping: prefixes of strings. An id without one is a case of `Migrate`.
* The wire form of annotations, colours, and the look-up of the users a mention stands for. A link to
  a user whom the message's mentions do not allow (`html.go:445`) is a "span" of `MatrixHtml`, and
  `@room` is always allowed.
* Receipts, typing, mutes, names and topics: one request or one event, no state.
* Starting a DM; the choice of messages for a backfill, a pure selection.
* The cookie jar: a map under a mutex. The login dialogue before `SubmitCookies`, which validates its input.
* The bridgev2 queue and what it persists: the framework's. The modules state what `src/` relies on.
* `PortalMetadata.Revision`: written, never read.
* Times and rates. A wait is its end; that Listen polls in a tight loop against a server that
  closes every poll, or how long backoff is, cannot be seen.
* Two `GChatClient`s of one login: `LoadUserLogin` disconnects the old one and makes a new one.
* `csessionid`, debug dumps, logging, flag parsing.

## 7. Plan

Done: event delivery, webchannel, connection, requests and sends, updates, invites, spaces,
migration, conversions; proofs of every safety property the runs check but
`AnnotationsFollowTheTree`. Left:

1. An abstract channel (arrays delivered in order, numbers accepted in order) that `Channel` implements.
2. The selection of messages for a backfill (`fetchTopicHeadMessages`, `fetchThreadMessages`,
   `planChatSync`) against a reference, as a fourth conversion.
3. Larger instances where time allows: two messages in `sends`, two connections in `connection`.

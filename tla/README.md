# encli in TLA+

A verification project for [encli](../src), a terminal messenger with an
ephemeral store-and-forward server, written in Go. It holds TLA+ models of the
parts that carry the program's logic, TLC configurations that check them on
small instances, and TLAPS proofs for every value of the constants.

## The system

A client logs in with a device identity (challenge, Ed25519 signature, session
token), gets a mailbox, and from then on pushes messages to other devices'
mailboxes and polls its own. The server keeps everything in memory. Messages are
meant to be encrypted with a Double Ratchet. Contacts are found through an
optional directory of nicknames.

| component | state it keeps | operations | what makes it correct |
|---|---|---|---|
| mailbox storage (`server/storage.go`) | `ms.mailboxes`, `accountCount` under `ms.mu`; per mailbox a list of messages and `LastAccess` under `mb.mu` | `RegisterDevice`, `StoreMessage`/`Push`, `Pull`, `Peek`, `CleanupExpired`, `secureWipe` | at most once, in order of acceptance, never wiped before it is read; oldest gives way when full; expired messages go; nothing else goes, but with a mailbox the cleanup had found empty and idle; the count matches the map |
| message endpoints (`server/handlers.go`) | none of their own | `handlePush`, `handlePull`, `handlePeek`, `handleNoise`, `handleStats`, ... | answer with what the store gave them before anything wipes it; every request is answered |
| rate limiter (`server/ratelimit.go`) | `rl.buckets` under `rl.mu`; `tokens`, `lastCheck` under `b.mu` | `Allow`, `cleanupLoop` | a key (the X-Forwarded-For header, or the address with its port) gets its burst and what it earns, no more, also across the cleanup |
| authentication (`server/handlers.go`, `server/server.go`, `pkg/crypto/challenge.go`) | `s.challenges` under `challengesMu`; `sm.sessions` under `sm.mu` | `handleAuthChallenge`, `handleAuthVerify`, `CreateSession`, both cleanups | a challenge is spent once; a login is refused only for a reason; nothing abandoned is kept for ever |
| double ratchet (`pkg/crypto/ratchet.go`) | root key, two chains, key pair, skip list | `InitAlice`, `InitBob`, `Encrypt`, `Decrypt` | what loss and reordering it survives; no key used twice; bounded skip list |
| client network layer (`cmd/encli/network.go`) | token and mailbox id | `Connect`, `SendMessage`, `PushMessage`, `PullMessages` | logs in after failures; an error is returned, never a false success |
| terminal client (`cmd/encli/tui.go`) | screen, conversations, list items and filter, open chat, its messages | `Update` with its keys, the poll command, `sendMessage` | mail comes to the messages once and in order, and to the screen while a chat is on it; a message goes to the chat it was typed in; the list and what its positions select agree |
| server directory (`server/directory.go`) | `entries` under one lock | publish, lookup, search (`Delete` has no caller) | search and lookup agree; the last publisher of a name has it |
| client directory (`cmd/encli/directory.go`) and contacts (`cmd/encli/contacts.go`) | the nickname in client.json; a list of contacts with its file | publish, lookup, search; add, delete, find | the saved nickname leads to this device |
| identity and client files (`cmd/encli/identity.go`) | `identity.json`, `client.json` | create, load, save; register, publish, send | one identity per user, never replaced; the server's address survives |
| protocol messages (`pkg/protocol/message.go`) | none | serialisation, conversation ids | imported by no other package |
| packet and stream encryption (`pkg/crypto/cipher.go`) | none | padding, packets, streams | only `Encrypt`/`Decrypt` of a profile are called |
| server life cycle (`server/server.go`, `main.go`) | `stopCh`, listener, goroutines | `Start`, `StartGRPC`, `Shutdown`, the two loops | accepted requests are finished; a signal ends the process |
| configuration (`server/config.go`) | the values the others start with | load | outside the models |
| keys, command line, scripts | none | primitives, flag parsing, set-up | outside the models |

Interactions. A request passes the rate limiter, then its handler. `handleAuthVerify`
takes the challenge, opens a session and registers the device in the store, each
under its own lock. `handlePush`/`handlePull` look a mailbox up in the store and then
work on the object without the store's lock. A goroutine of the server runs the three
cleanups on a ticker, the limiter has one of its own. The terminal client's poll command
and `sendMessage` share one `ClientNetwork` without a lock: `Update` runs in one goroutine and
blocks while it sends, a poll runs in another, and its result is a message to `Update`, which then
starts the next poll. The other commands of the client are processes of their own that share the
user's two files.

Facts of the code that shape the models:

- `ValidateSession`, `RevokeSession` and `RateLimiter.Stop` have no caller, and
  `deviceKeys` is written but never read: push and pull are not authenticated.
- A mailbox id is a deterministic hash of the device id, so a device finds its mailbox
  again; `StoreMessage` makes a mailbox for any id it does not know.
- `RegisterDevice` is not the only way to a mailbox, but the only one that tests the limit.
- `handlePush` looks the mailbox up a second time, for the queue size of its answer (handlers.go:352): the
  mailbox may be another by then, or gone.
- The WebSocket and gRPC endpoints are stubs.
- The client tries https, then http. A server speaks one of them, so the second attempt
  never reaches a handler that has served the first.
- `Connect` is called only while the mailbox id is empty. After a restart of the server the client
  keeps its id and never logs in again; pushes and pulls need no session, so they go on working.
- A pull answers "no mailbox" and "no mail" alike, and the client sleeps on both.
- `sendMessage` puts the message on the screen first; if the login then fails it returns without a
  word (tui.go:726).
- Pulled mail is appended to `m.messages`, whatever chat was opened last: the client does not know whose
  chat it belongs to. Only the chat screen draws `m.messages`, and opening a chat starts them afresh
  (tui.go:354, 735), so mail that comes while the list or the form is on the screen is seen by nobody.
- Enter in the chat list uses the position among the chats *shown*, also behind a filter, as a
  position among all of them (tui.go:352).
- `os.WriteFile` empties a file and then writes it, and nothing locks the user's files.
- `main` returns when a signal has come and `Shutdown` is over; `ErrServerClosed` from `Start` is not an
  error. A configuration without `mailbox_cleanup_interval` makes `time.NewTicker` panic at
  server.go:242; `configs/server.yaml` has one (1h).

What is hard to test: the interleavings of handlers and cleanups around two levels of
locks, pointers used after the map has let them go, logins that overlap or arrive after
their client gave up, restarts that forget, clocks that differ, a network that reorders and
repeats under the ratchet, two goroutines of the client that log in through one object, lists kept in
step by hand, files written in place by processes that may die, a shutdown that races what it stops,
and the counters and limits of all of them. `PROJECT.json`
lists these hazards at the lines where they bite.

## Modules

| module | models | by |
|---|---|---|
| `Storage` | `server/storage.go` and the handlers that drive it | one action per critical section |
| `MailboxPromise` | what the store promises, without locks or map | abstract specification of `Storage` |
| `RateLimiter` | `server/ratelimit.go` | one action per critical section |
| `Auth` | the login of client and server, both cleanups, restarts | one action per critical section or message |
| `DoubleRatchet` | `pkg/crypto/ratchet.go`, two peers and the network between them | one action per call and outcome |
| `Client` | `cmd/encli/tui.go` and `network.go`, one mailbox of the server, the network | one action per message to `Update`, key, or request |
| `Directory` | `server/directory.go`, its handlers, lookup and search of `cmd/encli/directory.go` | operators on `entries` |
| `Device` | `cmd/encli/identity.go` and the commands that use it; extends `Directory` | one action per access to a file or the server |
| `Lifecycle` | `main` of the server, `Start`, `StartGRPC`, `Shutdown`, the loops | one action per step of a goroutine |
| `MC*` | the instances TLC runs | symmetry sets and values of constants |
| `*Proofs`, `StorageRefinement` | theorems and their proofs | |

Operators whose comment begins with *Fault* are not part of any specification. Each is the
definition after it with a plausible bug, and shows that the property paired with it in
`PROJECT.json` notices that bug.

### Storage

State: the map, the counter, and for each mailbox object (a Go pointer) its queue, its
owner and `LastAccess`. A handler carries its program counter and its local variables
(`target`, `box`, `msg`, `batch`), the cleanup its position in the range over the map and in
the list.

`RegisterDevice` and the lookups need `ms.mu`, which the cleanup holds from `CleanStart` to
`CleanDone`. `StoreLookup`/`StoreCreate` are the two halves of the double-checked creation in
`StoreMessage`; `StoreStamp` is the assignment of `CreatedAt` outside every lock, which is why a
queue may be ordered by acceptance but not by creation time; `Push`, `Pull`, `Peek` hold
`mb.mu`. After `Push` comes the second reading for the queue size, `SizeLookup` under `ms.mu` and
`Count` under `mb.mu`, and only then the answer. `handlePull` encodes and wipes one message after the other (`EncodeAndWipe`).
`CleanScan` goes through one list under `mb.mu`; `CleanUnlock` releases it, and `CleanCheck`
reads `Len()` and `LastAccess` without it, as storage.go:236 does. That unlocked read of
`LastAccess` is a data race; the model lets it return the present value, the only one that
matters to a test whose answer can be stale already when `CleanDelete` acts on it.
`Restart` loses everything but the history variables.

Payloads are model values, each pushed at most once. `stamp` and `accepts` are history: the
order in which pushes took `mb.mu`.

`Stats` is left out: it only reads, taking each `mb.mu` in read mode under `ms.mu` in read mode. Whoever holds
`mb.mu` alone never waits for `ms.mu`, so it adds no circle to the waits the model has.

### MailboxPromise

The mailbox of an *id* is a set of messages; objects, locks and lists are gone. A request finds the mailbox of
an id, opening it if need be (`Find`), and then pushes (`Accept`), takes all of it in the order of acceptance
(`Take`), or only looks (`Look`). Otherwise a message leaves only because its mailbox is full and it is the oldest,
because its TTL is over (`Expire`), because the process restarts, or with its mailbox.

The last is what the code does beyond its documents (run `storage_delete`), and the promise states it as narrowly as
it can. `Condemn` needs a mailbox that is empty and unused for twice the TTL; until `Drop` the only requests that
reach it are those that had found it before. One of these may push: that message is held when `Drop` comes, and goes.
One that pushes after `Drop` is `late`: its message never is in the mailbox of its id (`AcceptLate`), and
only a pull that is late too can still return such a `stray` message (`TakeLate`).

`Storage!KeepsPromise` is the refinement. `Held` reads a mailbox through the map, so a message of an object that has
left the map is not held; `Stray` is what such objects hold, `Late` are the handlers that still point at one,
`Doomed` is the mailbox between `CleanCheck` and `CleanDelete`, and the batch of a pull is its answer. TLC checks it in run
`storage`, and `StorageRefinement` proves it.

### RateLimiter

`Lookup` under the read lock, then `Create` under the write lock or `Take` under the bucket's
own: between them the map may change. Time is in ticks, tokens are integers (`Rate` per tick).
`float64` rounding is not modelled. `made`, `granted`, `admitted` and `raced` are history.

### Auth

A call of `Connect` is used once; its challenge and its session have its name. Its two requests
travel on their own (`get`, `post`): the client may give up (`GiveUp`) while one is under way, and
it is handled later, or not at all. `handleAuthVerify` is three steps, one for each lock.
Ages stand for the time since an event and stop one past the limit they are compared with, so
time never ends and liveness means something. The signature's age starts at the device's lag.
Other accounts and the removal of a mailbox by the store's cleanup are `AccountsChange`.

### DoubleRatchet

Keys are symbolic: a root key is the sequence of Diffie-Hellman secrets mixed in, a message key
is a chain and a number. A message opens under its own key only, so AES-GCM is assumed perfect.
The network delivers any sent message at any time, any number of times. Each outcome of
`Decrypt` is an action: too far ahead, the next or a later key of the chain, a skipped key, a
number that is behind and not in the list. A failure keeps the state already changed, as the
code does. PN is left out because the receiver never reads it. The skip list, a map from numbers to
keys, is the set of its keys: a key carries its number, and a key put aside takes the place of the
one with its number, so the set never has two keys with one number.

### Client

State: on the server the device's queue (`box`) and whose challenge is pending; in the client
`connected` (`mailboxID` is not empty), a program counter for each of the goroutines `ui` and `poll`, what
the poll brought (`batch`), and the fields of `AppModel` that decide anything: screen, conversations, list
items, filter, selected chat, messages. A conversation is its id; ids may repeat, since the form
does not look whether a chat exists.

`PeerPush`, `Expire` and `ServerRestart` are the server's steps on the mailbox, as in `MailboxPromise`. `Connect`
is `RequestChallenge` and one of `VerifyAccepted`, `VerifyRefused` and `ConnectFails`; since the server keeps one
challenge per device, either goroutine may refuse the other. `Pull` may fail before the server
empties the mailbox or after it (`PullFails`), and what was in it is then in `lost`. `Send` leads through
`Connect` to `Push`, whose two ends are the server's word and an error that says nothing of the
server. `ShowPulled` appends a batch to `messages`, and if no chat is on the screen then puts it in `missed`: `Drawn`, what `View` draws,
is `messages` on the chat screen and nothing on the others. `OpenChat`, `DeleteChat`, `AddChat`, `SetFilter`, `GoTo` and `Quit` are the keys; they need `UiFree`, because
`Update` does not return while it sends. `Quit` starts the client again, with nothing in `messages`.
`rank`, `shownUpTo`, `missed`, `lost` and `opened` are history. The settings screen, contacts and layout are left out. The
list library orders what a filter leaves by how well it matches; the model keeps the order of the list, which no
property depends on, since a key may be pressed on any of the chats shown.

`MailReachesScreen`: mail the server holds is drawn in the end, unless it is lost on the way or came while no chat
was on the screen (`missed`). The latter is thrown away by the only way into a chat: the comment at tui.go:736 says that
`loadMessages` loads from the local store, but the function puts one welcome line in place of all messages, and
the server has given the mail away. So the property has this exception, and shows that there is no other.

`SentToOpened` says nothing of a chat opened behind a filter (`opened = NoId`): there the code takes
the position for another one, as listed in the hazards.

### Directory and Device

`Directory` holds `entries` by normalised nickname. What the two sides make of a name is given by
constants: `Norm` (lower case, trimmed) is what the server files by and the key is derived from, `Fold` (lower
case only) is what the client compares, `Prefix` is the part of the key a search sends, and `Plain` are the
names that do not break the JSON they are printed into. It has no behaviour of its own and is checked
inside `Device`.

`Device` is one user's machine. A process is a run of the program with one command. `look`, `load`,
`openIdent` and `writeIdent` are `loadOrCreateIdentity` and its files; `run` is what the command does then;
`readConfig`, `openConfig`, `writeConfig` are `saveNickname` and `registerDevice`. Between any two of these another
process may run or this one die. A process of the terminal client connects any number of times while it runs
(`ClientConnects`). A command that fails or dies may have sent its requests (`MaySend`): a login or a push shows the server
the id, and a publish goes into `late` and may arrive whenever it likes (`PublishArrives`). A file is absent, empty, whole, without a key (`Keyless`, the identity
file of a user from before keys were stored) or, for client.json, the `Mixed` text of two writers. A
stranger may publish any name, and the server may restart and lose its directory. `os.Stat` may fail on a file
that is there, which the code takes for its absence (identity.go:59): `WriteFile` then fails on the same path and the
command ends, as in `Crash`; that it succeeds after such a failure is not modelled.

The history flags say when a property may except something, and each is as narrow as the code allows:
`raced` (two processes made an identity at once), `hurt` (a writer of client.json died or met another),
`overlapped` (two publishes at once, or one that arrives late during another), `taken` (words somebody else has published or a restart has lost),
`unsaved` (words published and not saved).

### Lifecycle

`main`, the goroutines of `Start` and `StartGRPC`, the two loops, requests and gRPC peers, each with its place.
`http.Server` is external: `Shutdown` sets its flag and returns when no request is active or the 30 seconds
are over. `Die` ends all goroutines at once, whether by `main`'s return, `log.Fatalf` or a signal before
`signal.Notify`. The content of the sweeps is in `Storage`, `Auth` and `RateLimiter`.

## Runs

| run | asks | bounds | result |
|---|---|---|---|
| `storage` | count, at most once, intact pulls, double check, refinement of `MailboxPromise` | 1 id, 2 objects, 4 messages, 2 handlers, mailbox 2, TTL 0, 1 tick, 1 restart | holds |
| `storage_live` | expired messages go, requests are answered | 2 messages, 2 handlers, TTL 0, 1 tick, no restart | holds |
| `storage_delete` | what the cleanup deletes is empty (storage.go:235) | TTL 1, 3 ticks | violated |
| `ratelimit` | bound per bucket and per serial key, cleanup forgives nothing, `IInv` | 2 keys, 2 callers, 3 buckets, burst 1, rate 1, interval 1, 4 ticks | holds |
| `ratelimit_race` | bound per address (ratelimit.go:8) | 1 key, 2 callers, 3 buckets, burst 2, rate 1, interval 2, 6 ticks | violated |
| `auth` | logins nothing overlaps are accepted, challenges spent once, nothing is kept for ever | 2 calls of one device, lag 1, TTLs 1, 1 account | holds |
| `auth_full` | a registered device is let in (storage.go:151) | 3 calls | violated |
| `ratchet` | loss and reordering within a chain are survived, roots agree, keys used once, replays fail, skip list bounded, `IInv` | MaxSkip 2, 4 encryptions and 3 decryptions per peer | holds |
| `ratchet_reorder` | order does not matter (README.md:509) | the same | violated |
| `client` | mail comes once and in order, and is drawn, missed or lost; sends reach the chosen chat; the lists agree; the client logs in | 1 peer, 2 mails, 1 own message, mailbox 2, 3 chats, 1 filter, 1 restart | holds |
| `device` | one identity, never replaced; the server's address and the nickname survive; search agrees with lookup | 2 processes, 2 identities, 3 names of 2 words, 3 commands, 1 death | holds |
| `lifecycle` | accepted requests are drained; no false error; a signal ends the process | 2 requests, 1 peer, 2 loops | holds |

Why these bounds. `storage`: two handlers and the cleanup are enough for every pair of critical
sections to overlap; two objects let one be replaced or outlive the map; three messages overflow
a limit of two, and a fourth may be in another's hands meanwhile or stray; with TTL 0 one tick lets a message expire and its
mailbox be idle for long enough to be deleted, and every action of the promise is taken. One id only, since ids share nothing but the counter, and the proofs cover the
others. In `storage_live` two messages are needed for a queue whose second is older than its
first. `ratelimit`: with interval 1, four ticks let a bucket be made, dropped and remade twice; two keys let
a bucket the map has dropped be taken again for the other one, and a race of one key run beside serial requests
of the other; three buckets let one be in the map, one in a call, and one be fresh.
`auth`: two calls are a login and its rival or its retry; states with three are too many for
the liveness run, and the proofs cover any number of them. `ratchet`: four messages make a chain
in which more than MaxSkip are missing, and three decryptions let the ratchet turn twice. `client`: two
mails are the least that have an order, fill a mailbox of two, and let one be on the screen while the
other is in a batch or a mailbox; three chats are the welcome chat and one device twice, so
the one that is chosen or deleted may stand before or behind its double, and the one filter hides the
welcome chat, so that positions shift; the restart is the server's or the client's. `device`: two
processes meet at every pair of steps, and the third command finds what they left; two identities are
needed to see one replaced, the stranger is a third device; of the names two differ in blanks
only and so share a word, the third has a quotation mark, and both words share a prefix, so a
search finds foreign entries.
Processes, identities and the other interchangeable values are symmetric there, and the run has no
liveness property. `lifecycle`: one request may be answered while another is not.

Deadlock is checked except where the model may really stop: in `ratchet` sending is bounded, in `device`
commands are, and in `lifecycle` the process ends.

Fairness. The scheduler runs a goroutine that can run, so the cleanup is weakly fair. Handlers are
strongly fair: the cleanup takes `ms.mu` again and again, and Go's `RWMutex` serves waiting
readers and writers in turn, so a handler cannot be passed over for ever. In `Auth`, time passes and
the cleanup's ticker fires; nothing is assumed of the client, which may stop anywhere. In `Client`, the goroutines
run and requests end, by `DefaultTimeout` if not before (weak fairness of `Connect`, `Push`, `PollAgain`,
`PollBegin`, `ShowPulled`); and the network is not down for ever, so of the poll's requests, repeated
for ever, some are answered (strong fairness of `RequestChallenge` and `VerifyAccepted` for the poll, and of
`Pull`). Since a login fails on a full server too, this assumes that the server is not full for ever.
Nothing is assumed of the user, of pushes or of restarts. In `Lifecycle`, `main` goes on when it can
and the timer of `Shutdown`'s context fires; requests, peers and loops may take for ever.

## What the violated runs show

- `storage_delete`: `CleanupExpired` tests emptiness after it has released `mb.mu`. A push that found
  the mailbox before is accepted in between, and its message leaves with the mailbox.
- `ratelimit_race`: two first requests of an address both miss and each start a full bucket; the
  second replaces the first, and together they get more than the burst.
- `auth_full`: the limit is tested before the existence of the mailbox, so a full server turns
  away a device it knows.
- `ratchet_reorder`: a late message of an older chain turns the ratchet to the old key, fails, and
  leaves the peers with different roots.

## Proofs

For every value of the constants that the modules' ASSUMEs admit:

| theorem | says |
|---|---|
| `StorageProofs!Invariance` | `IInv` of the store is invariant |
| `TypeCorrect`, `AccountsCounted`, `AtMostOnce`, `DeliveredIntact` | its parts that matter to a reader |
| `SingleInstall` | no mailbox of the map is ever replaced by another (`LiveMailboxNotReplaced`) |
| `StorageRefinement!Refinement` | the store implements `MailboxPromise` (`KeepsPromise`) |
| `RateLimiterProofs!Invariance`, `BucketsBound` | the ledger of each bucket, and the bound that follows |
| `NothingForgiven` | a bucket the cleanup drops would have been full (`CleanupForgivesNothing`) |
| `SerialKeysBound` | a key whose requests are serial gets what one bucket allows, across all it has had (`SerialKeyBound`) |
| `AuthProofs!Invariance`, `SpentOnce`, `AloneAccepted` | challenges are spent once; a login that nothing overlaps is not refused for its challenge |
| `DoubleRatchetProofs!Invariance` | `IInv` of the two ratchets and what they sent and received is invariant |
| `SkipListFits`, `ReplaysFail`, `KeysFresh` | for every MaxSkip: the skip list is bounded, no message opens twice, no key encrypts twice |
| `OrderlyDecrypts`, `RootsNeverPart` | in an orderly network every message opens unless more than MaxSkip before it are missing (`ForwardDecrypts`), and the roots agree (`RootsAgree`) |
| `ClientProofs!Invariance` | `IInv` of the client, its mailbox and the network is invariant |
| `ListsAgree`, `SentRight`, `OrderKept` | its parts `ListsInStep`, `SentToOpened`, `ShownInOrder`, for any number of chats, mails and restarts |
| `DeviceProofs!Invariance` | `IInv` of the files under any number of processes, commands and deaths |
| `OneDevice`, `ServerAddressKept`, `NicknameFound`, `SearchFinds` | one device id, the server's address, the nickname, and that search agrees with lookup |
| `KeyKept` | no step replaces a settled identity (`IdentityKept`, an action property) |
| `LifecycleProofs!Invariance`, `RequestsDrained`, `QuietClose` | `Stages`, and with it `Graceful` and `OwnCloseNoError` |

Storage. `EachMessageInOnePlace` and `PullsIntact` are not inductive. A message must be
recognisable wherever it is, so `OrderInv` says that queues and batches are strictly increasing in
`stamp` and that what a handler still has to push has no stamp. `WipedInv` keeps
fresh messages unwiped. `HandlersInv` ties local variables to program counters and says that two
handlers never push one message. `AccountsMatchMailboxes` needs `CleanInv` (the mailbox the cleanup is
about to delete is in the map) and the finiteness of `MailboxIds`. The proof takes the parts one by
one; the five actions that move content (`Push`, `Pull`, `EncodeAndWipe`, `CleanScan`, `Restart`) are
lemmas of their own or cases of one, and all others leave content alone (`FrameContent`).

Refinement. One lemma per action of the promise, or two where several steps of the store do the same:
`RegisterRegisters`, `LookupFinds` and `CreateFinds`, `ReadersLook`, `StampPrepares`, `PushAccepts`, `PullTakes`,
`RespondAnswers`, `ScanExpires`, `CheckCondemns`, `DeleteDrops`, `RestartRestarts`, `TickTicks`. What else the store does is a
stutter (`Unseen`). The store follows pointers and the promise ids, so most of the work is that an object in the map is
the only one with its id (`OwnerInv`, `PointerFinds`) and that an object not in the map is stray as a whole
(`OneObjectChanges`); `AllocatedInv` says that whatever holds messages or is pointed at has an owner.
A queue is read as a set, so the lemmas need that it repeats nothing (`QueuesUnrepeated`, from `EachMessageInOnePlace`): then the length the
code compares with the limit is the size of the set (`ListSize`), and what `Push` evicts is exactly the oldest
message (`PushedContent`). That a pull answers with what the mailbox held, in order of acceptance, is `OrderInv`;
that a push still prepares or hands in a message nobody holds is `HandlersInv`. That the cleanup's pass
keeps new requests out between `CheckCondemns` and `DeleteDrops` is the lock `ms.mu`. `StepPromised` puts them together
under `IInv` of both states.

Rate limiter. `BucketBound` follows from `Ledger`: what a bucket has granted and still holds is at most
its burst and what it earned until `lastCheck`. The step that needs arithmetic is
`Earned`, monotonicity of the product of rate and elapsed time. `SerialKeyBound` is about a key, not a bucket, and a
key has many buckets one after the other. `KeyLedger` keeps one account for a key: the bucket it has takes over what
was admitted through those before it. When the cleanup drops a bucket it would have been full (`DroppedFull`), so
what was admitted is at most what the time has earned, and a fresh bucket adds no more than a burst to that.
It needs `OwnersInv` (a bucket in the map serves one key, although `Create` may take up again one that was dropped)
and `SerialInv` (what a call of a key that has not raced has found is what the map still holds).

Auth. `AloneIsAccepted` needs `AloneInv`: the challenge of an undisturbed call is the one that is pending
until the call takes it. That in turn needs `PendingInv` (a pending challenge has not been taken) and
`CallInv` (which stages of two requests go together).

Double ratchet. `KeysUsedOnce` says nothing of chains yet to be made, so the invariant names chains by
what made them. `ChainsInv`: the last secret of a sending chain holds one pair of its owner, the one in
the headers. `SentInv`: the present pair is the last, and its keys are behind the chain's next. `ApartInv`: a
sending chain's last secret holds only pairs that exist, so the chain of a ratchet step, made with a
new pair, is new to both peers. `OpensOnce` needs `SpentInv`: keys used and keys kept are behind the
receiving chain, and a step makes a receiving chain with a root longer than any before, so no chain is
derived twice, however old the pair that turned the ratchet. `DecryptOutcome` reduces the four outcomes
of `Decrypt` to one description, `Outcome`, from which the other lemmas follow.

`ForwardDecrypts` and `RootsAgree` assume an orderly network: each message is delivered once at most, none of an
older chain comes late, and the initiator encrypts first. Without these they fail (run `ratchet_reorder`). They are
not inductive, and need four facts of their own. `StreamInv`: what a peer has sent, and the next it would send, are
chains one after the other with consecutive numbers. `HeadersInv`: what a ratchet knows of the other's pair, and
that keys in the list differ in number. `TurnsInv`: the peers ratchet in turn, one being exactly one step `Ahead`, so a
message from a pair not yet seen comes from the peer that is ahead and the ratchet it causes derives the chain it was sent
on (`Arrival`, `TurnedMatches`). `DeliveryInv`: the receiving chain `Matches` what was sent on it, each message passed
over has its key in the list, and `skippedCount` is at most the number of messages passed over and not opened (`Lost`).
So a late message of the present chain finds its key (`KeptOpens`, `NeverUnknown`), and a refusal for
a full list means more than MaxSkip messages are missing (`RefusedOpens`). The bounds `MaxSent` and
`MaxGot` are only guards and no proof uses them.

Client. `ShownInOrder` is not inductive: a batch is in order only if the mailbox it came from was. `OrderInv`
puts everything into one line: what is in `messages`, then the batch, then the mailbox, then the
next rank. A push gets a rank above all others (`RankGrows` counts the ranked messages, which is why `Mail` is
assumed finite) and goes to the end (`PushKeepsOrder`); an expiry takes one out (`ExpireKeepsOrder`); showing a
batch moves the border `shownUpTo` (`ShowKeepsOrder`). `SentToOpened` needs `UiInv`: while a chat is open and was
chosen without a filter, the selected position still holds it, because only the list screen deletes
and adding appends. `ListsInStep` needs that both deletions take the first with the id, hence the same
position. The lemmas on sequences (`RemoveAtElements`, `InsertAtEnd`, `ConcatElements`) say what the library's
operators do.

Device. `OneIdentity` needs `OwnIdentity`: a command past its identity works with the key in the file, and one
that makes a key does so over no other and before any server has seen this user. `ServerKept` needs
`WritesServer`, what a command is about to write to client.json and who else may be at it. `NicknameResolves`
needs `NicknameInv`: `Ours` holds of the nickname on its way into client.json, not only once it is there; with
`FiledByName` (an entry is filed by the word of its name) it gives the answers of lookup and search.

Life cycle. `Graceful` needs `Stages`: how far `main` is tells what has been closed and that no request is active
when it moves on without a timeout. The three ways to die share the lemma `DieInv`.

Assumptions of the theorems are the modules' ASSUMEs: the model values differ, sets are finite where
something is counted, bounds are natural numbers. The bounds themselves (`MaxChats`, `MaxCommands`,
`MaxCrashes`, `MaxRestarts`, ...) are only guards and no proof uses their values.

Only model-checked: liveness (`ExpiredMessagesGo`, `RequestsAnswered`, `SessionsEnd`, `ChallengesEnd`, `LogsIn`,
`MailReachesScreen`, `SignalledExits`), which with ENABLED is beyond the prover, as is induction over data. Every safety
and action property of a passing run is proved.

## Not modelled

- Contacts (`contacts.go`): a list with its file. `NewAppModel` ignores the error of `Load` (tui.go:194), so a torn
  contacts file is overwritten by the next `Add`; deleting a contact by nickname deletes the first that has
  it (tui.go:476). A hazard of the list, without a property so far.
- The settings screen of the terminal client, layout, and the lines `loadMessages` puts on a screen.
- `pkg/protocol`: imported by no other package, so nothing of the program depends on it.
- `pkg/crypto/cipher.go` but for the two calls `Directory` takes as perfect: framing and padding have no caller.
- Keys: primitives of the Go library.
- Configuration: read once; its values are constants here.
- `Stats` of the store, `handleNoise`, `handleHealth`, `handleManifest`, `handleStats` and the WebSocket stub change no state; the client's
  `NoiseTrafficLoop` has no caller.
- Request parsing, the form of answers, command-line flags, shell scripts, `float64` rounding in the limiter,
  `uint32` overflow of chain lengths.

## Plan

1. Done: `Storage` with `MailboxPromise`, `RateLimiter`, `Auth`, `DoubleRatchet`, `Client`, `Directory`, `Device`,
   `Lifecycle`, their runs, the proofs of their safety and action properties, and the refinement of `MailboxPromise`.
2. Contacts, as a third file of `Device` together with the form of the terminal client that uses it.
3. `Client` over `MailboxPromise` itself: its steps on the mailbox are those of the promise with one device.
4. `Stats` in `Storage`, the one reader that nests the two locks.

Runs are few by choice: each module has one for safety and liveness together, and one more only for a
statement of the repository that the code does not keep.

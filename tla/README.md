# dfnet in TLA+

A verification development for dfnet, the network tool of the dfnix forensic
workstation: models of its components, the TLC runs that check them and the
theorems TLAPS proves about them. Source paths are relative to the repository
(`src/x.rs` is `src/src/x.rs` in `PROJECT.json`).

## 1. Inventory

dfnet is one Rust binary. What makes it hard is not shared memory but the world
it changes by one system call or external command at a time: evidence files,
the firewall, NetworkManager, sysctl, systemd, child processes. Every step can
fail, can be interrupted, and leaves something that the next invocation finds.
Nothing excludes a second invocation.

| component | source | state it keeps | operations |
|---|---|---|---|
| image receiver | `receive.rs` | output, `.json`, `.sha256`; socket, opening | `receive`, `copy_stream` |
| stream receiver | `stream.rs` | `.incomplete` and `.raw` files, collection, pairing code | `run`, `session`, `receive_one` |
| packet capture | `pcap.rs` | interface settings, dumpcap child, capture files, collection | `run`, `Changes::apply/restore`, `stop_child` |
| SSH access | `ssh.rs` | unit `dfnet-sshd`, session directory, opening | `start`, `stop`, `status` |
| listening and openings | `listen.rs` | INPUT rules tagged `dfnet-listen:`; `STOP` | `open_for`, `Guard`, `remove_tagged`, `accept` |
| access point | `main.rs` 436-746 | NetworkManager profile and activation | `hotspot start`, `hotspot stop` |
| routing | `routing.rs` | rules tagged `dfnet:<ap>`, `ip_forward`, `/run/dfnet/ip_forward.json` | `route enable/isolate/reset/status` |
| audit records | `audit.rs` | dfcore's hash-chained log | `record` |
| terminal interface | `main.rs` 815-2275 | lists of adapters with indices into them, cached hotspot status, the terminal's mode | `run_tui` and its keys |
| MAC change | `main.rs` 370-402 | the link, down while it is changed | `change_mac` |
| mounts, scans | `main.rs` | none | one external command each |

**Interaction.** `receive` and `stream` use `listen.rs` for their opening and
their waiting loop, `ssh` its openings under a tag of its own. `hotspot` calls
`routing.rs` around NetworkManager. All but `pcap` append audit records or
collections through dfcore. The terminal interface calls the same functions as
the subcommands, and starts nmtui and `dfnet receive` on its terminal. Beyond a call, components meet only in the kernel (INPUT chain,
forwarding) and in the file system.

**What is hard, and what makes each component correct.**

- *receive*: a kill or a power loss between any two of image, checksum and
  manifest must not leave a claim that is not true of the image; nothing that
  exists is overwritten; one allowed sender; the port is open only as long as
  somebody listens behind it; a stop while waiting ends the run.
- *stream*: `.raw` means complete, synced and what the sender said; items tell
  the truth of the files; codes are replaced after three failures; a silent
  sender does not hold the receiver.
- *pcap*: settings are off as long as dumpcap runs and back afterwards, in every
  error path; hashes are of closed files; every file is listed; a dumpcap that
  hangs is killed.
- *ssh*: only the keys of the session log in; a stop or a failed start takes
  back whatever is there; every login is recorded.
- *openings*: none stays without a holder; stale ones go at the next start;
  others are left alone.
- *hotspot and routing*: an AP that is up is guarded in both families at every
  moment; NAT is all there or not at all; forwarding is put back as it was, and
  not when somebody else needs it; a stop that succeeds leaves nothing.

- *terminal interface*: an index points into the list it was made for; the screen
  shows the device selected and its present status after any batch of keys;
  keys typed into a text are no commands; every way out leaves a terminal that
  works; a terminal that goes away ends the interface.
- *MAC change*: the link is up afterwards if it was up before, whatever failed.

`PROJECT.json` lists every hazard at its line, with the properties for it.

## 2. Modules

| module | what it is | extends / composes |
|---|---|---|
| `Acquisition` | abstract: what an image with its claims may look like | |
| `Receive` | `receive.rs`, with `accept` and the opening it holds | instantiates `Acquisition` as a refinement |
| `Delivery` | abstract: `.raw` files appear at once, complete, and stay | |
| `Stream` | `stream.rs`, with `accept` | instantiates `Delivery` as a refinement |
| `Pcap` | `pcap.rs` beside dumpcap | |
| `Ssh` | `ssh.rs`, one invocation after the other, beside sshd and the examiner | |
| `Openings` | `listen.rs` by several shells | |
| `Hotspot` | `main.rs` 436-746 and `routing.rs`, one process | |
| `Tui` | `main.rs` 815-2275 and 370-402, one interface beside a changing system | |
| `HotspotPair` | two `Hotspot` processes on one host | two instances of `Hotspot` |
| `…Proofs` | theorems about the module of that name | extends it and `TLAPS` |
| `MC…` | small instances | extends the module |

All are written the same way. The call that comes next is a `pc` (`me.pc`); an
action is one system call or external command with the code up to the next one,
its success and its failure being disjuncts. Locals are a record (`run`, `me`,
`stream`). A failing call takes from a budget of faults, a kill from one of
kills; these and the other bounds are the CONSTANTS `Max…`. History variables are
named as such; no action reads one. Operators under "Mutant:" are faulty
versions of their successor: `PROJECT.json` pairs each property with one that
breaks it.

**How state corresponds.**

- *Receive*: a file is [is, now, may]: who owns the path, what a reader sees and
  every content a power loss may leave; `sync_all` reduces `may` to `now`.
  `Restart` after a power loss picks from `may`. `sock` is the listening socket
  and its backlog, `fw` the opening and its `Guard`, `stop` is `STOP`. The
  socket and the opening are dropped in two steps, in the code's order, so that
  there is a moment, and a place for a kill, with an open port and no listener.
- *Stream*: a file is the set of contents it may have after a kill or a power
  loss. Renames are taken as durable. dfstream's frames arrive as actions of the
  sender (`HelloFrame`, `StartFrame`, `Data`, `EndFrame`, `Bye`, or `Silence`).
- *Pcap*: `iface` is ethtool, sysctl and link state; `me.undo` is
  `Changes.restore`; `named` is the pipe, the thread and the channel between
  dumpcap and the loop; a file's content is its size. The grace period is a
  number of turns of the loop, after which, or earlier, dumpcap is killed. What
  is read can be unreadable, too: `ethtool -k`, `ip addr`, the flags, operstate,
  `sysctl -n` and `try_wait` each have their failing case, with what the code
  then takes for granted. `failed` is the set of kinds of calls that have
  failed; a call of such a kind may fail again any number of times (a target
  that is full refuses every record).
- *Ssh*: a file of the directory, and the configuration sshd has read, are named
  by the invocation that wrote them, so that keys and sessions can be compared.
  `Running` is what systemd knows of the unit, `UnitActive` the answer that dfnet
  gets; when the question fails, that answer is no, and `blind` notes the starts
  that went on with it.
- *Openings*: INPUT counts the copies of each tagged rule, since a check that
  fails leads to a second one and `-D` takes one at a time; `left` is the listing
  a sweep works its way through while others change the chain.
- *Hotspot*: `rules` is the set of tagged rules of all chains, `nm`
  NetworkManager's view, `host` forwarding, default route and another shared
  connection, `record` the forwarding record (absent, torn, or a value),
  `me.blind` says that this invocation could not read `ip_forward`.

- *Tui*: `ui` is what is shown, `sel` the fetched lists with the indices into
  them (from 0, as in the code), `snap` the cached status, `term` the terminal's
  modes, `world` the adapters, the default route and the hotspot's device as they
  really are. The loop is clamp and snapshot, draw, poll, and a batch of events,
  each one action; the events of a batch come in any order and number, which is
  where a list, an index and a status read at different times meet. Children
  that take the terminal are program points (`nmtui`, `prompt`, `receive`), and
  so are the commands of `change_mac`.

**Abstractions that matter.** The order of firewall rules is left out (sets), and
in Hotspot the check `-C` and the insertion `-I` are one step. `route reset` is called only while no AP is active, as
README asks. An activation of a leftover profile by hand is excluded. In Receive
the creation of a directory entry is durable. Kill covers Ctrl-C wherever the
program has no handler. In Openings a failing bind changes nothing and is left
out, and without root the opening is simply absent. In Ssh the sweep is one step
(Openings has it rule by rule), an audit record does not fail, and 2 probes stand
for 50. In Tui texts, the adapter table with its cursor and scan results are left
out (a MAC change may be of any interface), starting or stopping the hotspot is
one step with the outcomes Hotspot has, events that crossterm read before a
hangup and kills from elsewhere are left out, and the clock moves a snapshot past
its two seconds at any time but between the look at it and the drawing. In Pcap
SIGKILL of dfnet is left out: nothing handles it.

## 3. Runs

Passing runs (each property has a mutant that it refutes):

| run | what it asks | bounds, and why they suffice |
|---|---|---|
| `receive` | claims on storage, opening, sender, files of others, refinement of Acquisition; a sender cannot stall, a stop ends the wait | 2 runs on the same paths (a second run meets every leftover of the first), images of 3 bytes over 2 values read by at most 2, so that a chunk ends before, at and after the expected size; one refused peer |
| `stream` | refinement of Delivery, items, exit code, codes; a session ends | 2 runs, 4 connections (one more than a code's attempts), 2 streams, 2 names, a fault, a kill |
| `pcap` | settings, files, collection; a stop ends the capture | 3 option/interface pairs: offloads switched off, offloads kept on a silent interface without a carrier, a silent interface that is down and has an address, so that every setting is changed once and passed over once; 2 files of at most 2 blocks, one rotation; 1 turn of grace; 2 kinds of failing calls, each as often as one likes, so that an undo can fail after the capture did; a signal |
| `ssh` | keys, clean-up, logins | 4 invocations (start, die, start, stop), 2 ports, 2 logins, 2 faults (a question to systemd and another call), 2 kills |
| `openings` | stray, stale and SSH openings | 3 invocations on 2 shells, IPv4, IPv6, loopback, 2 faults (a check and a deletion), a kill |
| `hotspot` | guards and NAT at every step; what each command leaves: a clean end, the status promised, forwarding | 2 APs, 2 uplinks (symmetric), 2 invocations, of which the second meets whatever the first left, with at most 2 of: a failing command, a kill, a move of the environment, so that a kill or a move can hit a rollback; 3 invocations without any of them (`FewTroubles`), for sequences of modes and restarts |
| `tui` | screen and system agree, the terminal and the link are restored, a hangup ends it | 2 Wi-Fi devices and a wired one, so that the selected device, the known one and the hotspot's differ; one trouble: a failing call or a change by others between any two events, the events themselves being unbounded |

Four properties except what the code really does when it cannot read something;
each exception is named in the property and is reached in its run:

- `QuietWhileCapturing`: after a failing `ethtool -k` (`pcap.rs:258`) GRO and LRO
  stay on, without the flags (375) ARP does, without `ip addr` (260) an address
  is not seen; and a dumpcap whose `try_wait` fails is not stopped (166).
- `Restored`: a setting whose own undo fails stays as it is, and only that one;
  IPv6 is given back as a guess when `sysctl -n` failed (366); a link that is up
  without a carrier is taken for down (387).
- `OwnKeysOnly`: a start that cannot ask systemd (`ssh.rs:113`) wipes the directory
  of a running session and puts its own keys there.
- `ForwardingRestored`: an invocation that cannot read `ip_forward` switches it off
  without asking who else shares (`routing.rs:218`).

Deadlock is not checked: every model stops when its budget of invocations is
spent or its program has ended, and a returned command stays returned.

Runs that end in a violation, each a disagreement between the code and what the
repository says of it (`findings` has the lines):

| run | what TLC shows |
|---|---|
| `receive_interrupted` | a run killed while it rewrites the manifest leaves an empty one, which does not say incomplete |
| `pcap_signal` | a signal before the handlers are installed leaves the interface changed |
| `hotspot_torn` | a start killed while it writes the forwarding record leaves forwarding on for good |
| `tui_index` | Space on the device field, after an adapter has gone, leaves the uplink's index out of range; the next drawing panics (2 wired adapters, one trouble) |
| `hotspot_pair` | a stop in a second process removes the guards of a start; the AP comes up without them |

The models do what the code does in other places where it and the repository
disagree, too; these have no run of their own and stand as notes of `hazards`:
a reception whose checksum or manifest cannot be written has no
`receive_finished` record; a signal between the look at `STOP` and a connection
is swallowed; a stream whose file cannot be created has no item, and a
connection that ends between two streams exits 0; an interface that is up without
a carrier is down after a silent capture, a failing record at its end leaves the
collection unfinished, and a signal hides that dumpcap had failed; a login
between the reading of the journal and the stop of sshd is not recorded, and an
unwritable `state.json` leaves an open session without a record; the forwarding
record of a failed start makes a later stop switch off what the administrator
has enabled since; a second listener's sweep closes the first one's port; Esc keeps
what was typed into a text, `n` does not read the uplinks again, and a NAT start
shown without an uplink takes the default route.

**Fairness.** Four runs check liveness: `receive`, `stream`, `pcap` and `tui`. The
first three assume that dfnet's own process runs, that is, its calls return (weak
fairness on its steps). For `receive` and `stream` that includes the read timeout of the
socket, which makes a silent peer an error. Nothing is assumed of senders or of
dumpcap, which may ignore SIGINT for ever, but not a SIGKILL. `tui` assumes only
that after a hangup the interface's own calls return, and that nmtui and a
question end when their terminal has gone; nobody has to press a key, and the
receiver it started need not end. Faults and kills are never fair. The other
components run a fixed list of commands, and only
their safety is checked.

## 4. Theorems

| module | theorem | for every value of the constants |
|---|---|---|
| `ReceiveProofs` | `TypeCorrect` | types |
| | `VerifiedMeansVerified` | a `verified` manifest stands beside an image of the expected size with a hash the operator gave |
| | `ChecksumMeansTrue` | a whole checksum line is true of the image beside it |
| | `ReceiverAcquires` | Receive implements Acquisition |
| | `EvidenceStays` | from it: what is claimed verified on storage never changes again, nor does the claim |
| | `AuditIsTrue` | the digest in the audit log is that of the manifest, for good |
| | `ManifestIsTrue` | a manifest becomes final with the count and hash of the image |
| | `WritesExclusive` | data comes from one allowed peer, behind a closed port, beside a pending record; files of others are never touched |
| | `OpeningGone` | the opening always has its guard, and outlives the socket by one drop at most, unless iptables fails or the run is killed |
| `StreamProofs` | `TypeCorrect` | types |
| | `RawIsDelivered` | Stream implements Delivery |
| | `DeliveredStays` | from it: a `.raw` file that is there is never replaced or changed |
| | `ItemsTrue` | an item's file is there and has the item's hash on storage |
| | `ExitTrue` | the exit code says what the items say, one for each stream begun |
| | `CodesReplaced` | no code is tried in vain more than three times |
| `PcapProofs` | `TypeCorrect` | types |
| | `Quiet` | what could be read and was to be off is off as long as dumpcap captures |
| | `SettingsRestored` | a run that has returned has given back each setting whose own undo worked, reaped dumpcap and finished the collection |
| | `EveryFile` | a finished collection lists every file |
| | `Unchanging` | a file that has been hashed does not grow |
| `SshProofs` | `TypeCorrect` | types |
| | `OwnKeys` | logins use the key of the session they reach, or of a start without an answer from systemd |
| | `LoginsRecorded` | a stop that succeeds has recorded every earlier login |
| | `NothingLeft` | a stop, and a start whose sshd does not listen, leave nothing |
| `OpeningsProofs` | `TypeCorrect` | types |
| | `NoStray` | an opening has a holder, or a kill, a failed deletion or a failed check left it |
| | `AloneIsOpen` | nobody's sweep but one begun beside it takes an opening in use |
| | `SweptClean` | a finished sweep has left none of what it found; SSH's openings are left alone |
| `HotspotProofs` | `TypeCorrect` | types |
| | `GuardsStay` | an AP that is up is guarded in IPv4 and IPv6 |
| | `WholeOrNone` | accepted traffic is masqueraded; between invocations an AP has all NAT rules or none |
| | `EndsClean` | a successful stop, and a rolled back start, leave nothing |
| | `StatusIsTrue` | the rules say what a successful command promised |
| | `Restored` | forwarding is as before when its record goes; it is switched off only when nobody else shares, or nobody could be asked |
| `TuiProofs` | `TypeCorrect` | types; no index below 0 |
| | `LinkRestored` | after a MAC change the link is as before, unless setting it up failed |
| | `TerminalGivenBack` | a terminal that is there and never failed is restored at every end |
| | `ScreenIsTrue` | the hotspot tab is drawn for the selected device, with a status right when read |

Every safety invariant and every action property that a passing run checks is
thus proved, and so are both refinements.

The assumptions are the `ConstantsAssumption` of each module (bounds are natural
numbers, digests are of the right set, sets of endpoints or peers contain each
other). TLC evaluates them in the runs.

*Why the invariants are strengthened.*

- **Receive.** Whether a claim is true after a power loss depends on what the
  image may become. `Counted` and `Hashed` tie the locals to the image;
  `SealedRun` says that once the run has synced the image its only content is
  the one counted and hashed; `Sealed` says the same of any storage that may
  hold a verified manifest or a checksum line, after any number of later runs,
  which find the paths taken. `More` adds four parts: where the guard and the
  socket are (`Listening`), that the peer read from is one that was let in
  (`Accepted`), which document each record in the log digests (`Recorded`), and
  that storage holds nothing of the image but beginnings of what is written, and
  at most one final manifest (`Stored`). Acquisition's steps follow from these: a
  power loss is Lose, the last sync of the manifest is Verify.
- **Stream.** `Counting` bounds the failures by the code shown, `Vouched` says
  that a stream past its sync has one possible content, the one its END record
  named, and `Apart` that a name's `.incomplete` and `.raw` are not both being
  written. Delivery's steps follow: only the rename changes `raw`. `Told` ties
  the tally, from which the exit code is computed, to the items and the one at hand.
- **Pcap.** A setting still to come is as it was found, one that has gone by is
  quiet, unless it could not be read, as long as dumpcap may run, and one that was
  changed is in `undo` once, with its old value or a guess, until it is given
  back or its own undo has failed (`stuck`).
  `Attended` says where dumpcap may be running at all, which is where the
  handlers are installed and every way out passes `stop_child`. The files named
  in the pipe are closed, and after dumpcap's end nothing is written, so that
  the walk through the directory finds the last size of each.
- **Ssh.** An invocation meets whatever all earlier ones left. `Prepared` says
  what a start has already wiped or written at each call, `Swept` which rules
  are gone, `Stopped` what stop has ended so far; `OwnSession` that an sshd that runs
  finds keys of its own invocation, none, or those of a start in `blind`; `Accounted` that the logins still
  owed a record are in the journal, and in what stop has read of it.
- **Openings.** `IdleHoldsNothing`: a shell between invocations has neither a
  guard nor a socket, so that a rule without a fault has a running holder.
  `Single`: of a rule there are two copies only after a fault, so that the one that
  a holder deletes is the last. `Solo`
  says where a guard, its rule and another busy shell can be as long as none
  began beside another; `Sweep`, which stale openings each sweep has still to
  list or to delete.
- **Hotspot.** `Control` says, per program point, for which interface an AP may
  be up, which guards exist and what the sweep may still delete; activation
  needs the guards that `SetGuard` has finished, and no removal reaches a guard
  before the AP is known to be down. `Recorded` follows the forwarding record
  through `remember_ip_forwarding` and `restore_after_hotspot`. `Firm` follows
  the rules: the chains a sweep is through with hold nothing it should remove
  (`SweptSoFar`); since FORWARD comes before POSTROUTING, an `accept` goes before
  its masquerading (`Wholeness`); an AP being set up has the first k NAT rules
  and all guards (`SetUp`), one being taken down neither activation nor profile,
  and after its sweep no rule (`TakenDown`). A sweep that could not list or
  delete is an error, never a success: that is what makes the end clean.
- **Tui.** `LinkKept` follows `change_mac` from call to call. `TerminalKept` adds
  that the terminal is restored while a child has it, since Ctrl-C then ends
  dfnet without its cleanup. `ScreenKept` takes `ScreenAgrees` out of the
  drawing: `SnapshotTrue` holds at every step, since whatever moves the AP marks
  or drops the snapshot, and `DrawFresh` lives from the top of the loop to the
  drawing, between which only a hangup or somebody else can do anything.

**Only model-checked.** The liveness properties `ReceiveReturns`, `SessionEnds`,
`StopEnds` and `HangupEnds`: they rest on weak fairness and so on ENABLED, which
TLAPS does not handle. And the disagreements of section 3, which are
counterexamples and need no proof.

## 5. Not modelled

Argument parsing, the parsers of command output (pure functions with unit tests;
the models use what they extract), mounts and scans (one command each), `ssh
status` and `route status` beyond the classification that `StatusAgrees` states. dfcore (hash chain, collections,
manifest files) and dfstream (PAKE, frames) are other repositories: the models
use them as the code here does.

## 6. Plan

Done, in this order: Receive with its abstraction; Hotspot; Openings; Stream with
its abstraction; Ssh; Pcap; Tui with the MAC change. What is left:

1. *Prove.* The safety properties are done. Next is what the extensions below
   add; and for `HotspotPair`, whose guards a second process can remove, that
   they stay when no second process runs `route reset` or `hotspot stop`.
2. *Extend.* A second invocation of Ssh beside the first; a composition of
   Openings with Ssh's sweep, and of two receivers on one output path; an abstract
   specification of forwarding (who wants it, who turned it on) that Hotspot
   implements where no record is torn or stale.

# libssh-ruby in TLA+

A verification project for libssh-ruby: a C extension that wraps libssh in the
classes `LibSSH::Session`, `LibSSH::Channel`, `LibSSH::Scp` and `LibSSH::Key`,
and an SSHKit backend (`lib/sshkit/backends/libssh.rb`) built on it.
`PROJECT.json` lists components, runs, the lines every definition stands for,
the hazards of the code, the variants that show each property can fail, the
findings and the theorems. Source lines below are relative to `src/`, and C
files to `src/ext/libssh_ruby/`.

## 1. Inventory

| Part | State | Operations | Interacts with |
|---|---|---|---|
| Session (`session.c`) | `SessionHolder.session`, the `ssh_session` with its options, connection, channels and last error | `new`, option setters, `connect`, `disconnect`, `server_known`, `userauth_*`, `get_publickey`, `write_knownhost`, `fd` | libssh, the collector |
| Channel (`channel.c`) | `ChannelHolder.channel` and the Ruby session it belongs to | `open_session`, `open_forward`, `request_exec`, `request_pty`, `read`, `read_nonblocking`, `poll`, `write`, `send_eof`, `eof?`, `open?`, `closed?`, `get_exit_status`, `close`, `Channel.select` | libssh, the session's error, the collector, the caller's block |
| Scp (`scp.c`) | `ScpHolder.scp`, its session, the `ssh_channel` inside | `init`, `close`, `push_file`, `write`, `pull_request`, `request_*`, `accept_request`, `deny_request`, `read` | the same |
| Error (`error.c`) | none; reads code and message from the session | `libssh_ruby_raise`, the macro `RAISE_IF_ERROR` | every method |
| Key (`key.c`) | one `ssh_key` | `sha1`, `type`, `type_str`, `public?`, `private?` | `get_publickey` |
| SSHKit backend (`libssh.rb`) | configuration and a pool of sessions | `execute_command`, `upload!`, `download!`, `with_session`, `create_session` | Session, Channel, Scp, SSHKit |
| Example forwarder (`example/local_forward.rb`) | a server thread, two copying threads on one channel, a client process | write loop, poll/read loop | Channel, a local socket |
| Module functions and constants (`libssh_ruby.c`) | none | `version` | libssh |

What is hard here, and what makes each part correct:

* **Lifetime.** Three owners disagree about one structure: Ruby's generational
  collector, libssh (a session owns its channels) and the holder structs. The
  only link is the mark function. A channel or scp in use never loses its
  session, a channel is never freed twice or with its Ruby object, an
  unreachable session is freed.
* **Calls.** A method gives the GVL away, comes back at any later time, possibly
  with an interrupt, and reads the error from the session. The error is that of
  the call, buffers are freed before the jump, blocks close what they opened,
  exceptions are not swallowed, a thread that hangs in libssh does not hang the
  others.
* **The polling loop of `execute_command`.** Two streams share one flow-control
  window; data, end of output, exit status and close arrive in several orders,
  or the connection goes. All output comes before the status, the status is the
  command's own, the channel is closed, the loop ends.
* **Transfers.** `download!` counts characters against bytes; each file the server
  offers replaces the one before or, when `local` is an IO object, follows it; `upload!` announces a size and then sends what
  it finds. A target is a copy or the call raises; it ends.
* **The pool.** Sessions outlive the block that used them and are found again by
  value, while options change, connections are lost and sessions expire. A
  session has one user, is authenticated, fits the request and is clean.
* **The forwarder.** Two threads and two joins order both directions of a
  connection and its end. Nothing is lost, nothing overtakes, the relay ends.
* **Options.** Ruby values become C values behind a `void *`. What was set is
  what libssh has, or nothing is.
* **Keys.** A `Key` is made in two ways. Every `ssh_key` is freed once.

## 2. Modules

| Module | What it models |
|---|---|
| `Lifetime` | holders, `*_alloc`, `initialize`, `*_mark`, `*_free`, `disconnect`, minor and full collections, lazy sweep |
| `NativeCall` | every method that talks to libssh: GVL, interrupts, return code, exception, buffer, block |
| `RemoteCommand` | abstract: what a backend promises SSHKit about a command |
| `ExecuteCommand` | `execute_command` with server, window, network; implements `RemoteCommand` |
| `FileCopy` | abstract: what `upload!` and `download!` promise |
| `ScpDownload`, `ScpUpload` | the two methods with libssh's transfer state, the remote scp and the local file; implement `FileCopy` |
| `SessionPool` | `with_session`, `create_session`, `configure_session` and SSHKit's pool |
| `Pipe` | abstract: one direction of a connection |
| `LocalForward` | the threads of the example; implements `Pipe` twice |
| `SessionOptions` | every option setter of `Session`, `protocol=`, `add_identity` and `parse_config` included |
| `Key` | `Key` objects, `get_publickey`, `key_free`, `sha1` |
| `MC*` | instances for TLC |
| `*_proofs` | theorems about `Lifetime`, `NativeCall`, `ExecuteCommand`, `ScpDownload`, `ScpUpload`, `SessionPool`, `LocalForward`; `Session_proofs` about `SessionOptions` and `Key` |

The modules share no variables; each is the system seen from one kind of
trouble. `ExecuteCommand`, `ScpDownload`, `ScpUpload` and `LocalForward` take
from `NativeCall` that a block closes its handle on every way out of it
(`BlockClosesHandle`), from `Lifetime` that the session is there meanwhile
(`SessionOutlivesDependents`), and from `SessionPool` that no other thread uses
the session (`OneUser`), without which an error could be another thread's.

Operators introduced as a *variant* of a definition are not part of the
specification. They state a plausible bug (a missing mark, `rb_rescue` for
`rb_ensure`, a stream not drained); `PROJECT.json` pairs each with the
property that must fail when it takes the place of the definition.

### Lifetime

`heap`, `session` and `native` are the Ruby object, `holder->session`, and the
pointer `holder->channel` / `holder->scp` / `holder->session`. `native` is
`"none"` for NULL, `"live"`, or `"freed"` once libssh has freed the structure,
wherever pointers to it remain. `scpChannel` is the channel libssh keeps in a
`ssh_scp`. `InitChannel` copies `native[s]`: `ssh_channel_new(NULL)` returns
NULL and `initialize` keeps it (`channel.c:66-76`).

`MarkedBy` is `channel_mark` and `scp_mark`, which mark nothing when their
pointer is NULL. `GcMajor` marks from the roots. `GcMinor` keeps old objects
and does not look inside them: the types declare `RUBY_TYPED_WB_PROTECTED`
(`channel.c:27`, `scp.c:24`, `session.c:22`). An object visited grows older;
a child of a parent that becomes old becomes old with it, as Ruby does.
`garbage` are the objects of the last marking still to be swept, one by one, in
any order, while the program runs (lazy sweep).

`initialize` runs at any time after the allocation. In `Channel.new` nothing of
Ruby runs between the two and the object is young; after `Channel.allocate`, or in
a subclass that works before `super`, it may be old, and then the store of
the session (`channel.c:73`, `scp.c:83`) would need the write barrier the type
promises. `unbarriered` is the history of these stores: an old object that was given
a younger session. `SessionOutlivesDependents` and `DanglingOnlyAfterDisconnect`
leave out these objects and no others; `MCLifetimeLateInit.cfg` shows that there are such objects.

### NativeCall

A step from Ruby into libssh (`Begin`), libssh's answer (`NativeReturn`), and
the return into Ruby (`Finish`, after the GVL has been taken again) are
separate actions: everything else may happen in between. The record `Call`
holds what distinguishes the methods: whether the GVL is given away, what
happens to `SSH_ERROR` (`"raise"`: `RAISE_IF_ERROR`; `"ignore"`;
`"negative_size"`: the code goes to `rb_utf8_str_new`), whether a buffer is
allocated, whether a block follows. One action per method.

`Finish` is `Interrupted` (the interrupt is delivered inside
`rb_thread_call_without_gvl`, so nothing after it in the method runs) or
`Conclude`. `frames[t]` is the stack of blocks of open calls. `LeaveBlock` is
`rb_ensure` running the close method, at the end of the block or when an
exception unwinds it; `exc[t]` survives unless the close raises another.
`lastError[s]` is who set the error text of the session last, and which calls
were under way on the session then and still are: the text itself stays in the
session for ever, and `libssh_ruby_raise` reads whatever is there
(`error.c:30-31`). `from` and `recent` of an exception say whose failure it tells of
and whether it happened during the call that raises it. Only the second is
always so (`ErrorIsRecent`); with two threads on one session the first is not
(`ErrorIsOwn`, `MCNativeCallOverwritten.cfg`). An interrupt that is pending when
`rb_thread_call_without_gvl` is entered is delivered there, before libssh is called
and after `read` has allocated its buffer (`InterruptedAtEntry`).

The guards that are not in the code are the program's: a session is connected
once until it is disconnected, a command is run by the thread that owns the
session or shares it. A disconnect is made when no block of the session is being
executed, and an object freed by it, or about to be, is not used: what happens otherwise is the subject of
`DanglingOnlyAfterDisconnect` in `Lifetime`.

### ExecuteCommand

`pc` names the call the method is in. The server writes `output[st]` units on
each stream as long as `window` allows, then ends its output, sends the status
and closes. libssh moves messages from `net` to its buffers only in calls that
read the socket (`Pumping`). `Select` has no timeout and drops the return code.
`ReadNonblocking` takes at most `BUFSIZ` units and gives them to the handler,
which may raise. `raised` is the exception on its way through `rb_ensure`.

`RunsCommand` instantiates `RemoteCommand` with `shut` as "end of output or
close sent" and `outcome` from `pc`. The abstract specification hands over
output in order and reports a status only after all of it; that the method ends is
`CommandFinishes`.

Each read takes a chunk off `buffer[st]` and appends it to `handed[st]`, so that
order and identity of every unit are visible; a unit is `<<stream, number>>`.

### ScpDownload

A content is a sequence of bytes of three kinds: a character of its own, and the
two bytes of a two-byte character, which is all that `buf.size`
(`libssh.rb:173`) tells apart. A script is what the remote scp has to send: files,
directories, warnings, each with its `fate` (sent, unreadable on the far side,
cut short). `scp` is libssh's state, and calls out of order fail as libssh's do.
`ReadLast` is the part of `ssh_scp_read` behind the last byte: it confirms the
file and waits for the verdict. A warning is passed over because the
`case` (`libssh.rb:78-86`) has no `else`. `RunDry` is the read that returns an
empty string for ever at the end of a truncated channel.

`local` is what is stored of the current file and `kept` what the target holds in
front of it. `wrap_local_writer` (`libssh.rb:153-163`) opens a path and truncates it,
so `kept` stays empty; an object that responds to `write` (`stream`) is used where it
stands, so a second file follows the first. `FileCopy` says the same of its target
(`appends`, `before`). `Scp#close` is two steps: libssh sends an end of file
(`SendEof`), then reads until the server has ended (`Close`), which it does when it
is asked for its next answer, or was about to end anyway.

### ScpUpload

A byte of the local file is its position, so what is stored can be compared with
what was announced. The file may shrink and grow between two reads and the
IO object may have been read from before (`Faults`). `Sent` is libssh's cap at
the announced size; once it is reached libssh leaves the writing state and one
more `write` fails. `Unnoticed` names the normal returns that `upload!` cannot
tell from success.

### SessionPool

`MergeOptions`, `StoreOptions` and `WithSession` merge the options, store them in
the host and read them from it again (`libssh.rb:179-180`): other threads may set
them in between. `PoolKey` is the list of arguments by which SSHKit finds a
session. `pc` walks through `create_session` (`ConfigureSession`, `Connect`,
`ServerKnown`, `Userauth`), each of which may raise, and through the block. `Push`
is the ensure of `pool.with`. Neither `close` nor `closed?` exists in
`LibSSH::Session`, so the pool drops sessions without closing them and cannot
recognize lost ones; `Collect`, the free function, ends a connection. An interrupt
may be raised between the open and the block, and before the close
(`OpenChannel`, `CloseChannel`), in `Scp#init` and `Scp#close` likewise: `stray[s]` counts the channels that stay open that
way, and the session goes back to the pool with them.

### LocalForward

One record of four stages per direction: units written, in the socket, in the
channel, come out. `server_thread`, the reader and the writer are the
three threads; the main thread waits for the condition variable and runs the
client. `Poll` has the three outcomes of `channel.c:448-458`, which `PollResult`
folds into an integer or nil. `Join` raises the exception its thread died of.

### SessionOptions

A Ruby value is a record of its type and content. `NotFixnum` is `Check_Type(i,
T_FIXNUM)`; `CInt` and `CLong` are the C variables whose address is passed, and
`ReadAs` is what libssh finds there with the width *it* expects: a nondeterministic
choice of the upper half when an `int` is read as a `long`. Setters that share a
C helper share an action. `protocol=` makes two calls of libssh, of which either
may be refused (`session.c:245-246`): when it is the second, the first flag stays
stored (`HalfStored`). `ParseConfig` may set any option, those of one of the
`FileSets`.

### Key

`key[o]` is `holder->key`, `content[k]` the place it points to. `Initialize`
makes an empty key, `GetPublickey` allocates an object without `initialize` and
lets libssh fill it. `Initialize` may be called again: it overwrites
`holder->key` (`key.c:39`) and the `ssh_key` there is lost, which `forgotten` records.
A hash that was never written is `Garbage`. `KeyInit`, `KeyNext`
and `KeySpec` carry the module's name so that one module can extend both this and
`SessionOptions`.

## 3. What is external

Modelled from how the code uses it: Ruby's collector and GVL, libssh, the
server, the network, SSHKit's pool, the local file, psql and the socket.
Assumptions about libssh:

* `ssh_free` and `ssh_disconnect` free the channels of the session;
  `ssh_channel_new` and `ssh_scp_new` return NULL for a NULL session; a call that
  returns `SSH_ERROR` has set the session's error; a close fails only for want of
  a connection.
* `ssh_channel_is_eof` is false while data is buffered; a nonblocking read reads
  the socket only when its buffer is empty; an open request before the
  authorization and an exit status nobody requested a command for never return
  (FIXME comments at `channel.c:114` and `channel.c:467`).
* `ssh_scp_read` returns at most what was asked for, at most what has arrived and
  never beyond the file; it returns nothing, and no error, at the end of a
  truncated channel; `ssh_scp_write` sends no more than was announced;
  `ssh_scp_close` reads what is left but looks at none of it.
* Two threads may be in libssh on two channels or the two directions of one
  without disturbing each other; `LocalForward` needs it, nothing here shows it.

About SSHKit: a pool keeps sessions by the arguments of the creation block, hands
a session out once, takes it back in an ensure and lets it expire.

## 4. Runs

| Run | Instance | Shows |
|---|---|---|
| `lifetime` | 1 session, 1 channel, 1 scp, old after 2 collections | `SessionOutlivesDependents`, `DanglingOnlyAfterDisconnect`, `ChannelFreedBySession`, `UnreachableSessionFreed` |
| `lifetime_sweep_order` | the same | **violated**: `ScpFreedBeforeSession`, finding 1 |
| `native_threads` | 2 threads with a session each, one channel, no interrupts | `BlockClosesHandle`, `CallReturns` |
| `native_shared` | 2 threads that share a session and a scp, 2 interrupts | `ErrorIsRecent`, `EnsureKeepsException`, `BufferFreedBeforeRaise` |
| `native_interrupted_open` | 1 thread, 1 interrupt | **violated**: `BlockClosesHandle`, finding 2 |
| `execute_command` | streams of up to 3 units, window 3, `BUFSIZ` 2 | `TypeOK`, `StatusAfterOutput`, `ExitStatusFaithful`, `ChannelClosed`, `CommandFinishes`, `RunsCommand` |
| `scp_download` | 20 scripts of up to 3 entries and 5 bytes, chunks of up to 2, `int` up to 4 | `TypeOK`, `FailedForAReason`, `NeverPartial`, `DownloadEnds`, `CopiesFile` |
| `scp_upload` | files of up to 5 bytes, reads of up to 2, all faults | `StoresAnnouncedBytes`, `FailedForAReason`, `UploadEnds`, `CopiesFile` |
| `session_pool` | 2 threads, 2 sessions, 1 host, an option with one value or unset, 1 interrupt for each session | `OneUser`, `HandedAuthenticated`, `SessionMatchesRequest`, `PooledClean`, `IdleConnectionEnds` |
| `local_forward` | 2 units each way, buffers of 1, poll with a timeout | `TypeOK`, `DoneMeansRelayed`, `UpPipe`, `DownPipe`, `RelayEnds` |
| `session_options` | one option of each kind, 2 calls, `int` up to 3, Fixnum up to 7 | `TypeOK`, `SetMeansStored`, `RefusedChangesNothing` |
| `key_ownership` | 3 objects, 4 places, 2 server keys | `Ownership`, `CopyIsStable` |

**Bounds.** A session with a channel and a scp lets one dependent die, be
disconnected or be promoted while another is in use; `OldAge = 2` separates
young, one collection old, and old. Several sessions are covered by the
theorems. Two threads suffice for one to be in libssh, or to wait for the GVL,
while the other runs; two interrupts let the second arrive while the first unwinds out of a block. How deep
blocks are nested is left to the theorems (`EnsureKeeps` holds for any depth). With `Window`
above `BUFSIZ` a read leaves units in the buffer with the end of output behind
them, and the two streams together exceed the window, so the server stalls
unless the program reads both. Files of up to five bytes take several chunks, put
a two-byte character inside a chunk and across two, and lie on both sides of the
`int` limit of four; two entries show that a file replaces the one before and
that libssh's state survives a file. Five bytes in reads of two make an upload
whose last chunk is short, cut or one too many. Two sessions and two threads
let a session be pooled under one list of arguments while it is asked for by
another; an interrupt for each lets a session with a left channel be used, and
interrupted, along with a clean one. Two units through buffers of one make both copying threads wait in the
middle of a write. Three bits of `int` and four of Fixnum have values on both sides
of each limit; two calls let the second meet what the first has left. Four
places for three keys let a place be reused.

**Fairness.** `Lifetime`: a full collection happens again and again and its
sweep completes (Ruby runs both as the program allocates); nothing is assumed of
the program. `NativeCall`: the GVL is passed on in turn and a time slice ends;
libssh comes back from every call that is not premature (the server answers or
the connection is lost); no fairness for the program's own choices.
`ExecuteCommand`, `ScpDownload`, `ScpUpload`: the far side goes on sending or
storing, messages arrive, the program goes on when a call returns; a connection
may be lost, and need not be. `SessionPool`: time passes, the pool's own thread and
the collector run; nothing is assumed of the program. `LocalForward`: the threads
run, the client connects when it is started, the service takes its input and ends
when that has ended. Strong fairness is used where an opportunity comes and
goes: taking the GVL, and for the writer, which polls again and again, noticing
that the connection is lost (`WriterFails`: enabled in `poll` and `read`, not in
between).

**Deadlock** is checked everywhere except in `local_forward`: there the main
thread and `server_thread` wait for ever when the wakeup is lost, and a client
that never leaves leaves everyone waiting.

### Findings

1. `scp.c:44` demands an order of freeing the collector does not keep
   (`lifetime_sweep_order`): a scp and a session that die together are swept in
   any order, and `ssh_scp_free` follows the scp's pointer to its session.
2. `open_session` promises to close the channel after the block
   (`channel.c:118`); an interrupt between opening it and `rb_ensure` leaves it
   open (`channel.c:135-139`, `native_interrupted_open`).

### Known disagreements and limits of the code

The passing runs name what they exclude. In `ScpDownload`, `FailedForAReason`
allows `Unsupported` files: one with a two-byte character inside a chunk, whose
`n` stays below `size` so that a read too many raises (`libssh.rb:173`); an empty
file, after which libssh is still in its reading state (`libssh.rb:170`); a file
larger than an `int`, refused by `FIX2INT` (`scp.c:371`). `CopiesFile` is about
files, so that a warning (a missing file) makes `download!` return normally without a
copy (`libssh.rb:78`). It excludes `Skipped` too: the answer to a directory makes
the remote scp end, and files behind the directory are left out without an
error (`libssh.rb:82`); `download!` does not ask for recursion, so only an unusual
server sends one. `DownloadEnds` excludes `RunDry`, the loop that never ends
when the remote scp dies in the middle of a file (`libssh.rb:170`). In
`ScpUpload`, `CopiesFile` excludes `Unnoticed`: fewer bytes than announced, because
the IO object was read from before (`libssh.rb:53`) or the file shrank, and a
message of the server that comes after the last write (`libssh.rb:59`).
`BlockClosesHandle` holds without interrupts; with them, `PooledClean` allows the
channels they leave open on a pooled session (`libssh.rb:113`, finding 2). In
`SessionOptions`, `RefusedChangesNothing` allows the one exception that leaves a
trace, a `protocol=` whose second call is refused. In `Key`, `Ownership` allows a
`ssh_key` that a second `initialize` has lost: nobody frees it, and nobody frees
it twice.

Further configurations each show one more disagreement as a violation, with
`tlc -config <cfg> <module>`:

| Configuration | Module | Violated | What |
|---|---|---|---|
| `MCLifetimeLateInit.cfg` | `MCLifetime` | `WriteBarrierPromise` | `RUBY_TYPED_WB_PROTECTED` (`channel.c:27`, `scp.c:24`) promises a write barrier that the only store of a reference lacks (`channel.c:73`, `scp.c:83`): an object initialized when it is old refers to a young session the next minor collection does not see |
| `MCNativeCallOverwritten.cfg` | `MCNativeCall` | `ErrorIsOwn` | `LibSSH::Error` is documented as the error libssh returned (`error.c:8,14`); code and message are read from the session after the GVL was waited for (`error.c:30-31`), and a failing call of another thread on it replaces them in between |
| `MCNativeCallReadError.cfg` | `MCNativeCall` | `FailureIsLibSSHError` | a failing `read` or `read_nonblocking` raises `ArgumentError` and loses its buffer (`channel.c:301`, `353`) |
| `MCNativeCallEarlyOpen.cfg` | `MCNativeCall` | `NoOpenBeforeConnect` | `open_forward` and `Scp#init` lack the check that `open_session` makes (`channel.c:129-133`) |
| `MCSessionPoolTimeout.cfg` | `MCSessionPool` | `ConnectTimesOut` | `Configuration#connection_timeout` (`libssh.rb:21,33`) is never read |
| `MCSessionPoolStale.cfg` | `MCSessionPool` | `OwnOptionKept` | an option set for the host while `with_session` merges is overwritten (`libssh.rb:179`) |
| `MCLocalForwardWakeup.cfg` | `MCLocalForward` | `SignalStartsClient` | `cv.signal` before `cv.wait` is lost (`local_forward.rb:29,60`) |
| `MCLocalForwardTimeout.cfg` | `MCLocalForward` | `NilMeansTimeout` | `poll` documents nil for a timeout (`channel.c:423-424`) and returns it for the end of the stream |
| `MCKeySha1.cfg` | `MCKey` | `Sha1IsOfKey` | `sha1` of a key without a public part reads what was never written (`key.c:62-64`) |

## 5. Proofs

TLAPS checks these for any values of the constants that satisfy the named
assumptions of the modules: any number of objects, threads, sessions, handles
and keys, any sizes.

`Lifetime_proofs`:

* `TypeCorrect`: `Spec => []TypeOK`.
* `LifetimeInvariant`, from which `SessionOutlives`
  (`Spec => []SessionOutlivesDependents`) follows. The property is not inductive:
  that a minor collection keeps the session of an *old* channel depends on the
  session being old itself. The invariant therefore adds that an old dependent
  refers to an old session unless it was old when the session was stored
  (`PromiseKept`), that roots and what they mark are never garbage, and that a
  session behind a non-NULL dependent was initialized.
* `DanglingAfterDisconnect` (`Spec => []DanglingOnlyAfterDisconnect`), inductive
  relative to that invariant with one addition: a scp whose pointer is NULL has
  no `ssh_channel`. `ChannelsFreedBySession` (`Spec => ChannelFreedBySession`)
  uses that nothing but a live structure stands behind an initialized session,
  and that `initialize` runs once.

`NativeCall_proofs`:

* `MethodShape`: every method makes a call of one of a few shapes or is refused
  before; the other proofs treat the 30 methods through it.
* `TypeCorrect`: `Spec => []TypeOK`.
* `ErrorRecent`: `Spec => []ErrorIsRecent`, for threads that share sessions in any
  way. The invariant says that a return code that waits to be raised finds in the
  session an error that was set during its call: another call can replace it only
  by a younger one.
* `BlockCloses`: `Spec => []BlockClosesHandle` when no interrupts arrive. The
  invariant says who answers for every handle opened with a block: an open call
  that succeeded and has not entered the block, the block, or the close call.
* `EnsureKeeps` (`Spec => EnsureKeepsException`) and `BuffersFreed`
  (`Spec => BufferFreedBeforeRaise`) follow from the types, one step per action.

`ExecuteCommand_proofs`: one invariant for everything.

* `Sums` counts every unit in four places: what the server may still send, what is
  on the way or buffered, what is handed over. `InFlight`: the
  connection carries exactly the units after those received, in the order of
  their stream, as long as it is not lost. `Contents`: what was handed over, then
  what is buffered, are the units from the first on. `Ends`: behind an end of
  output there is no data, so that when libssh raises the flag everything
  has been received, and `pc` passes the loop only when the buffers are empty
  too. `Verdict`: the status travels before the close. `Block`: how far the
  method is. None of the properties is inductive without the account of what is on
  the way.
* `TypeCorrect` (its content is the window: `Sums` is what bounds it),
  `OutputBeforeStatus` (`Spec => []StatusAfterOutput`), `StatusIsOwn`
  (`Spec => []ExitStatusFaithful`), `ClosesChannel` (`Spec => []ChannelClosed`).
* `KeepsPromise` (`Spec => RunsCommand`): the refinement of `RemoteCommand`. Server
  steps map to `WriteUnit`, `ShutOutput` and `End`, a read to `HandOver` or to no
  step, `get_exit_status` to `Report`, the end of the method to `Conclude`, all the
  rest to no step.

`ScpDownload_proofs`:

* `Protocol` says how the server, the announcements on the way and libssh's state
  keep pace; `Progress` that the local file is a beginning of the current entry,
  what libssh has handed out of it is what the file holds, and what is on the way
  follows it; it is complete wherever the program is outside the read loop. `n` is
  at most the length of the file, although it counts characters
  (`Chars`): this is why a short count is an error and never a wrong copy.
* `TypeCorrect` (`n` never passes `size`) and `StoresNoPart`
  (`Spec => []NeverPartial`).
* `RaisesForAReason` (`Spec => []FailedForAReason`). That a raised exception has a
  reason is not inductive: the reason lies with the server, many steps before.
  `Fate` says what the server has done to the file that is asked for when a bad
  verdict or an early end is under way (one that is not the answer to `close`), `Loop` that `n` is the length of the
  local file unless a two-byte character was counted as one, and `Blame` that the
  reason is there when the exception is, and also when libssh is in a state in
  which the next call must fail.
* `CopiesSafely` (`Spec => CopiesFile`): each step of `download!`, of the server or of
  the connection is a step of `FileCopy` or none. `OpenLocal` maps to `CopyNext`,
  a round of the loop to `CopyMore`, `Close`, a failing `SendEof` and a failing `ScpInit` to `Conclude`.
  A file is complete when the next one is opened, whether that one replaces it or
  follows it in a stream.
  `Order` says that every file the server has been at was opened, and none twice;
  `Announced` that libssh reports the end of the transfer only behind the last
  entry or behind a directory that was refused, since an announcement still on
  the way is read first.

`ScpUpload_proofs`:

* `Stage` says where `upload!` is and how libssh and the server keep pace with it;
  `Contents` that the stored bytes, then those on the way, are the file from
  where the IO object stood, all that was sent unless the connection is lost or
  the server has given up storing. The bytes on the way are what makes it inductive.
* `TypeCorrect` (no more is sent than was announced) and `StoresOnlyFile`
  (`Spec => []StoresAnnouncedBytes`).
* `RaisesForAReason` (`Spec => []FailedForAReason`), with `Blame`: libssh leaves its
  writing state only when all that was announced has been read, so one more
  round of the loop means that the file has grown.
* `CopiesSafely` (`Spec => CopiesFile`): the opening of the remote file maps to
  `CopyNext`, a stored byte to `CopyMore`, a return or an exception to `Conclude`, all
  the rest to no step.

`SessionPool_proofs`: `TypeCorrect`, `SessionHasOneUser`, `HandsOutAuthenticated`,
`SessionFits` and `PoolIsClean`, from an invariant that says of every session
whether it is held by one thread, filed once under the arguments it was made
with, or neither (`Holding`, `Filed`, `Exclusive`), and how many channels it has
open: those interrupts have left, and one while its holder is between open and
close (`Channels`).

`LocalForward_proofs`: one invariant for both directions.

* `InOrder` counts the units of a direction in four places, from the end where they
  come out to the socket they were written to: each place continues the numbering
  of the one before, and together they are all that was sent (of the client's only
  while it has not reset the connection). `ReaderInv` and `WriterInv` say what a
  copying thread holds between two calls and when it may have ended: the
  reader behind the client's end of input, the writer behind the service's, with
  nothing left in the channel. `ThreadInv` is the order of the two joins and of the close.
  The end of input is safe only because the thread that sends it holds nothing.
* `TypeCorrect`, `EndsRelayed` (`Spec => []DoneMeansRelayed`).
* `UpRefined` and `DownRefined` (`Spec => UpPipe`, `Spec => DownPipe`): each step is a
  step of that pipe or none. Writes at one end map to `PWrite`, what comes out at the
  other to `PRead`, the end of input that the service sees to `PEnd`, a reset to
  `PBreak`; the copying threads in between leave the pipe alone.

`Session_proofs`, about `SessionOptions`:

* `Effect` says what a call can do at all: raise and leave every option alone
  (`Refused`); store what its value means in its own option, or put it in front of
  the identities (`Stored`); store both protocol flags (`StoredBoth`), or the first
  and raise (`StoredFirst`); read a file into any options (`Parsed`). Each setter has a lemma that its code comes to
  one of these: it is here that the checks before the conversion are needed
  (`Check_Type` before `FIX2INT`, the whole array of `protocol=` before the first
  flag), and that the C variable has the width libssh reads. The rest is about `Effect`.
* `OptionsTyped` (`Spec => []TypeOK`), `SettersStore` (`Spec => []SetMeansStored`)
  and `RefusalsChangeNothing` (`Spec => RefusedChangesNothing`). The invariant is
  `TypeOK` and that the identities are a list of texts. `Kinds` is the lemma that no
  option is of two kinds; the flags store 1, so an `int` must hold it
  (`ValuesAssumption`).

About `Key`: `KeysTyped` (`KeySpec => []KeyTypeOK`), `OneOwner`
(`KeySpec => []Ownership`) and `CopyStable` (`KeySpec => CopyIsStable`), from
ownership stated from both sides: every object's `ssh_key` is allocated and its own,
and every allocated `ssh_key` has an object that will free it, or was lost by a
second `initialize`. A copy is stable until its own object is initialized again.

Only model-checked are the liveness properties (`UnreachableSessionFreed`,
`CallReturns`, `CommandFinishes`, `DownloadEnds`, `UploadEnds`, `IdleConnectionEnds`,
`RelayEnds`), since neither fairness nor ENABLED is within the prover's reach. Every
other property of the passing runs is a theorem.

## 6. Not modelled

* Module functions and constants (`libssh_ruby.c`, `libssh_ruby.h`): set once
  before any other code runs. `version` only asks libssh; its documentation
  (`libssh_ruby.c:13-14`) promises nil for a version that is too old, where
  `rb_str_new_cstr` of NULL raises `ArgumentError` (line 26).
* `Key#type`, `type_str`, `public?`, `private?`, `sha1_hex`, `Scp#request_filename`,
  `request_warning`, and the symbols that `userauth_list` and `server_known` make of
  libssh's codes: queries and tables without state.
* The examples other than `local_forward.rb`: linear scripts. Build files,
  packaging and specs: no run-time behaviour. Logging and formatting.
* What libssh does with two threads on one session, or with a session that was
  never connected: outside this repository.

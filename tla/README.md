# motosan-sandbox: specification and proofs

TLA+ models of `motosan-sandbox`, a Rust library that runs one command under a
filesystem and network policy (`crates/motosan-sandbox`) with a local allowlist
proxy (`crates/motosan-sandbox-proxy`). Paths below are relative to
`crates/motosan-sandbox/src` unless they start with `proxy/`
(`crates/motosan-sandbox-proxy/src`).

## 1. Inventory

| component | state it keeps | operations | interacts with | what makes it correct |
|---|---|---|---|---|
| `Sandbox::run` (`lib.rs`) | proxy guard (server handle, host bridge guard) for the length of one call | detect, `maybe_start_proxy`, `transform`, `spawn_and_capture`, guard drop | all the others | nothing of a run outlives it; no command starts without its proxy |
| transform and policy (`transform.rs`, `policy.rs`, `reexec.rs`) | none (pure) | policy to spawn request, helper policy, environment | helper through the environment | what a backend cannot express is refused, never weakened |
| spawn and capture (`spawn.rs`) | the future's position, `timed_out`, two reader tasks, the child | spawn, race of wait / timer / token, kill, reap, join, classify | child, its descendants, pipes, tokio | exact output, own status, no deadlock, no leak, ends |
| re-exec helper (`linux.rs`, `reexec.rs`) | argv[0], environment, credentials and filters of one process over up to four images | dispatch, no_new_privs, seccomp, Landlock, bwrap, bind, fork, exec | parent by exit code, inner stage by environment, bridge by fork | target only under full enforcement; stages recognise themselves |
| bwrap arguments, deny-read masks (`linux_bwrap.rs`) | none | expand globs, order mounts | bwrap | later mounts protect what earlier ones opened; masks complete or refused |
| in-netns bridge (`linux_bridge.rs`) | listeners, two threads per connection | bind, serve, pump | target, host sockets | every byte and every end-of-stream arrives; dies with the target |
| host bridge (`proxy_bridge.rs`) | socket directory, accept tasks, connection tasks | prepare, accept, forward, drop | in-netns bridge, proxy | released on every exit path |
| CONNECT proxy (`proxy/lib.rs`, `proxy/connect.rs`) | accept task, connection tasks, header buffer | read header, decide, connect, tunnel | target or host bridge, upstream | only allowed hosts; no payload byte lost, none invented |
| allowlist (`proxy/matcher.rs`, `policy.rs`) | patterns | parse, normalise, match | proxy | denotes the documented set of hosts |
| Seatbelt (`seatbelt.rs`) | none | policy to profile | sandbox-exec | last matching rule protects |
| denial heuristic, exec allowlist (`denial.rs`, `execpolicy.rs`) | none | predicates | the consumer | recognise what the backends do |

Hard behaviour: the three-way race in `spawn.rs` with futures that a caller may
drop; processes that inherit pipes and outlive the child; a chain of execs whose
stages know only their environment, failing at any step; a fork whose position
between bind and seccomp matters; two kinds of copy loop in series; guards whose
drop does not reach the tasks their tasks spawned. `PROJECT.json` lists these
hazards line by line with the properties that cover them.

## 2. Plan

1. `Command`, `SpawnCapture` (+ proofs): one run from spawn to result. *Done.*
2. `Enforcement`, `Helper` (+ proofs): the re-exec chain on Linux. *Done.*
3. `SandboxRun` (+ proofs): `lib.rs` with the life of proxy, host bridge,
   connection tasks and a dropped call. *Done.*
4. `Glob`, `FsPolicy` (+ proofs): the mount order of bwrap, the rule order of
   Seatbelt and Landlock's allow-only rules, each against one meaning of a
   policy; the choice of the backend and the network marker. *Done.*
5. `DuplexChannel`, `Tunnel` (+ proofs): target, pump threads, host bridge, proxy, upstream
   in a chain with bounded buffers and half-close; order and completeness of
   bytes, end-of-stream, absence of deadlock. *Done.*
6. `Allowlist`, `ProxyConn` (+ proofs): header scanning in chunks, decision,
   pipelined payload; matching against a reference definition. *Done.*

SpawnCapture and Helper meet at the child: SpawnCapture takes the child as its
environment ("setup", then "target", then dead with a status), and Helper's
`SetupStatus` is what it assumes of one: before the target runs a helper ends in
a reserved code or by our SIGKILL, and only bwrap has codes of its own.

## 3. Modules

### Command and SpawnCapture

`Command` is what a caller is promised: bytes are emitted on two streams, at
some point nobody can emit any more, and only then is an `ExecOutput` handed out
that keeps exactly the first `max` bytes of each stream (all for `max = 0`).

`SpawnCapture` is `spawn.rs` with its environment.

| model | code |
|---|---|
| `run` | position of the future: before spawn, in the `select!`, in the kill arm's `wait`, at each of the two joins, returned, dropped |
| `reader[s]` | a `read_capped` task: capturing, draining, ended |
| `pipe`, `written`, `captured` | bytes in the kernel pipe, ever written, in `buf`; bytes are counted, since a pipe is a FIFO with one reader |
| `open[s]` | processes holding the write end: the child and what it forked |
| `child`, `status`, `ranTarget` | life of the process, how it died, whether the target was exec'd |
| `fired`, `cancelled` | the timer and the token |

One action per step: `Spawn`/`SpawnFails`, `WaitDone`, `StopEarly` (the `early`
branch with `start_kill`), `ReapKilled`, `WaitFails`, `JoinOut`, `JoinErr` (with
`classify_helper_exit`), `DropRun` (the caller drops the future at an await),
`ReadChunk`, `DrainChunk`, `ReadEof`, `ReadFails`; and for the environment
`HelperExec`, `SetupFails`, `TargetExits`, `Fork`, `Write`, `CloseStream`,
`DescendantExits`, `NamespaceDies`, `TimerFires`, `Cancel`, `OrphanReap`.

### Enforcement and Helper

`Enforcement` is the promise of the helper: restrictions only grow, the target
starts only when all its policy demands is in force, a refusal is final.

`Helper` is one process that changes image. What a stage knows of itself is what
exec hands on, so `argv0`, `env` (mode in `POLICY_ENV`, `STAGE_ENV`, proxy
variables), `has` (no_new_privs, Landlock, mounts, masks, namespaces) and `socks`
(families the seccomp filters leave) are variables, and `pc` is the next step of
the function the image is in. Each fallible step has a failing disjunct with the
code's exit code, and `Killed` may strike anywhere. `fork_bridge` copies `socks`
to the bridge at the moment of the fork; drop of the listeners, rewriting and
scrubbing of the environment are local to the parent and part of it. The
commands `Bwrap`, `TargetExits` and `NamespaceDies` stand for programs and a
kernel outside the repository.

### SandboxRun

`SandboxRun` is `Sandbox::run` around one capture, with the tasks it starts and
the connections a proxied command opens, on Linux (command, route socket, relay
task, proxy, serving task) and macOS (without the middle two).

| model | code |
|---|---|
| `fut` | how far `maybe_start_proxy` and `run` are, or how `run` was left |
| `loop[l]`, `held` | accept loop 0 (proxy) and 1.. (routes); the loops whose `JoinHandle` a guard holds |
| `bound`, `dir` | loop index of `prepare_host_bridge`; its `TempDir` |
| `relay[c]`, `serve[c]` | the two tasks of a connection, in a backlog before they exist |
| `client[c]`, `peer[c]` | its two outer ends |

`Leave` is every exit and contains `DropGuard`, which aborts what `held` names
and nothing else. An aborted loop is `cancelled` and may accept until its poll
returns; when a loop ends, its listener and backlog go with it (`EndLoop`,
`Refused`). The bytes of a connection are not modelled here: a header is
complete or not, a tunnel's ends are open or closed, and `copy_bidirectional`
ends when both are closed or, at its own choice, breaks when one is.

What SandboxRun takes from the other modules: the capture ends with a dead child
(SpawnCapture's `NoChildLeft`), and the in-netns bridge closes the command's
connections when the namespace dies (Helper's `BridgeReaped`).

### Glob and FsPolicy

`Glob` is the readings of a deny-read glob: what the documentation says it
denotes (`Denotes`), globset's on the paths of the walk (`is_match`,
`static_prefix_dir`, `WalkMatches`), and that of the regular expressions
`seatbelt.rs` writes into the profile (`deny_read_regexes`). A path is a sequence
of names, a glob a sequence of components, each a text with a way to read it:
plain, a star and then the text, `**`, or bracketed (`class`: `[ ]`, `{ }`, a
backslash). A matcher is a function from the components, last to first, to the
positions of the path from which they match the rest of it.

The two conversions a glob goes through are tables over texts, so that what they
do to a text is part of the instance and of the theorems:

| constant | code |
|---|---|
| `Pasted[n]` | how a directory of the working directory reads once `resolve_deny_globs` (`transform.rs:35`) has put it before a relative glob, unescaped: for `[s]`, the class of that text |
| `AsChars[t]` | `c as char` in `glob_body_to_regex` (`seatbelt.rs:143`): the text whose characters are the bytes of `t`; the identity on ASCII |
| `Class[t]` | the names a bracketed text stands for in globset; a text outside its domain is one `Glob::new` refuses |
| `Ending[t]` | the texts that end in `t` |
| `Unlistable` | directories whose listing fails, which `filter_map(Result::ok)` passes over |

`Meant` is the glob at the working directory as the documentation has it,
`resolve_deny_glob` what the code makes of it. `ReadByWalk` and `ReadByRegex` say,
of a glob and a working directory as written, that the backend reads them so.

`FsPolicy` is a policy on its way to a running command in a working directory
(`cwd`), on a host whose files appear and are replaced.

| model | code |
|---|---|
| `passthrough`, `from_policy`, `for_proxied`, `transform_seatbelt` | the branches of `transform.rs` and `reexec.rs`: the backend, the refusals, the network marker |
| `expand_deny_read_masks` | the walk at the moment of the mount, the cap on all globs together, the refusal of a glob globset does not take (`BadGlob`) |
| `build_bwrap_argv`, `Bwrap` | `--ro-bind / /`, fresh `/dev` and `/proc`, roots from shallow to deep, read-only subpaths, masks; bwrap gives up on a missing source |
| `build_policy` | the Seatbelt profile: allow roots, deny subpaths, deny reads, last match wins |
| `install_landlock` | only grants; a root that does not exist is skipped |
| `layers`, `Later`, `May` | what the kernel decides: the last layer that covers a path, or for Landlock any |
| `late`, `Appear`, `Replace` | files made or replaced after the rules took hold |

The rules are compared with one meaning of the policy for all backends:
`WritesConfined` and `WritesGranted` from both sides, `SecretsHidden`,
`MarkerMatchesNetwork`; that the masks stay within the cap (`MasksWithinCap`) is
proved and not among the runs. `SecretsHidden` asks of every glob that
what it denotes cannot be read, and the code does not keep it: `fs_globs` refutes it
at two conversions, section 6 names two more. `PlainSecretsHidden` asks it where the backend in
use reads glob and working directory as they are meant; that holds, and is proved.
Under bwrap both speak of the files the walk met: one that appears later, or
whose directory the walk could not list, is not masked.

What the model shows on the way, all of it on the safe side: the sort of the roots
does not change the effect, since every root gives the same; globset's `*` also
crosses `/`, so the walk masks more than Seatbelt denies; Seatbelt's `**/` may also
stop inside a name and hides `foo.env` for `**/.env`; only Seatbelt denies the
directory of the static prefix.

### DuplexChannel and Tunnel

`DuplexChannel` is what the two ends of a tunnelled connection are promised:
bytes arrive once and in order, and on an unbroken connection the end of a stream
is seen where the writer put it.

`Tunnel` is a chain of stages between links. A link is a pair of connected
sockets (`buf`, `shut`, `gone`, `reset`); a stage is a copy loop in each
direction (`hand`, `copy`) and its life (`stage`).

| model | code |
|---|---|
| stage `"pump"` | `pump_bidirectional` in `linux_bridge.rs`: four duplicated descriptors, one blocking `io::copy` per thread, join, drop. `Clone` may fail; the end of one direction is not passed on, since the other thread's duplicates keep the socket open |
| stage `"tokio"` | `copy_bidirectional` in `proxy_bridge.rs` and `proxy/connect.rs`: both directions in one task, shutdown of the writer at EOF, an error ends both |
| `Take`, `Put`, `Eof`, `Fail`, `Return` | read, write (perhaps partial), end of stream, error, drop of both sockets |
| `EndWrite`, `EndRead`, `EndShutdown`, `EndClose` | target and server, with half-close |
| `TargetExits` | the namespace dies and takes the bridge's process with it |

### Allowlist and ProxyConn

`Allowlist` is the way of a host rule: `HostPattern_parse` and `to_pattern_string`
of the library, `Pattern_parse` of the proxy, `normalize` of the target and
`allows`. A text is a sequence of tokens: dots, colons, brackets, stars, spaces,
and labels for what lies between.

`ProxyConn` is `handle_conn`. A byte of the client is named by its position:
`size` bytes of header, the last four of them the blank line, then payload, sent
in pieces of any length without waiting for an answer.

| model | code |
|---|---|
| `rules`, `Rule` | the caller's rules: a pattern as meant, written as a text and parsed, or built as a `HostPattern` |
| `target` | the second word of the request line: any text without a space |
| `ReadHeader`, `ReadNothing` | the loop over `read`: blank line anywhere in the buffer, cap, EOF |
| `header_end`, `n` | the same names; `n` is `buf.len()` |
| `Refuse`, `Dial`, `Connected`, `Reply` | 405, 403, 502 and 200 |
| `ToSocketAddrs` | the host `TcpStream::connect` tries for the target as it came: a port is needed, an IPv6 address is taken out of its brackets |
| `Forward` | `buf[header_end..]` goes upstream before the tunnel starts |
| `TunnelUp`, `TunnelDown`, `TunnelEnds` | `copy_bidirectional` as seen from here; `Tunnel` has the whole of it |

What a rule means is said of the text of a host (`Covers`): it is the name, or has
it behind a dot. Three properties compare the outcome of a connection with it,
across both parsers, the printing between them and `normalize`.
`OnlyAllowedHosts` asks it of every rule and target, and `conn_targets` refutes it. Where
rules are `Plain` (no space around the name, and the name of one host does not
read as a pattern) and the target has no bracket, `DecisionAsMeant` says that a
host is dialled only if a rule covers it and refused only if none does. For
targets with brackets and rules that are host names, `AddressRefused` is what
`matcher.rs:50-53` claims of IPv6 literals: none gets through.

## 4. Runs

| run | question | instance |
|---|---|---|
| `spawn_safety` | what may an `ExecOutput` contain, in every interleaving | all three spawn kinds, caps 0 and 1, pipe of 2, 2 bytes per stream, one left-over process, read errors on stdout |
| `spawn_liveness` | does a contained run end and leave nothing behind | pid-namespace kind, cap 1, pipe of 1, 2 bytes, two left-over processes |
| `helper` | is the target fully enforced, are the stages recognised, is the bridge usable and reaped | all network policies, two routes, three ports |
| `sandbox_run` | is the proxy there while the command runs, and does everything end with the run | both platforms, both kinds of policy, two routes, two connections |
| `run_releases` | a statement of `proxy_bridge.rs` that the code does not meet | one connection |
| `fs_policy` | may a command write exactly what its policy says, on every backend, and not read what it hides, while files appear and are replaced | three platforms, two working directories (one named `[s]`), 361 policies: nested roots in both orders, roots above and inside a fresh mount, subpaths that are a file, a directory, above a root; globs of all forms, one of them invalid; 13 paths, one unlistable directory, cap 2; 130393 states |
| `fs_globs` | statements of `transform.rs:17`, `linux_bwrap.rs:62` and of the deny-read design document (`:119`, `:143`, `:154`) that the code does not meet on Linux | `**/.env` in `/ws/[s]`, and `/ws/s[u]b/*` |
| `tunnel` | does every byte and every end of stream cross the chain, and does the chain end | macOS `<<tokio>>`, 2 bytes each way; Linux `<<pump, tokio, tokio>>` with both ends reading, 2 and 1 bytes, and with a server that never reads and 7 bytes, which fill every buffer; buffers of 1 |
| `proxy_conn` | is the decision the one the rules mean, does pipelined payload survive every way to cut the reads, is the client told one thing | 8 allowlists, written and built; every target of up to 3 tokens over two labels, a capital, dot, colon and both brackets, IPv6 addresses of up to 4 tokens, bracketed or not, and three longer ones, each alone and with a port; two methods; reads of up to 3. Four of the targets with headers of 4, 6, 7, 8 bytes around a cap of 5 (6 = cap + 1) and 2 bytes of payload, the others with a header of 4; 595013 states |
| `conn_targets` | a statement of `matcher.rs:41` that the code does not meet | one rule, three targets |
| `spawn_hang`, `spawn_timed_out` | two statements of the code's comments that the code does not meet | Landlock kind, cap 1 |

Bounds. With a cap below the bytes written the capture crosses the cap, drains,
and blocks the writer (`PipeCap` <= `MaxBytes`); with cap 0 it never drains; a
second descendant only adds depth to inheritance, which the liveness run has.
Two routes are enough to confuse two ports, three ports to bind one too many.
With two routes a bind can fail after another has succeeded, and two connections
can wait in one backlog, or in two, when a loop ends. In `tunnel` a stage with
one byte in hand and one in either link is already able to fill, to block, to
write partially and to be overtaken; a longer chain adds no new neighbour to the
pairs pump-tokio and tokio-tokio. In `proxy_conn` the blank line is spread over two
and three reads, and a read may take header and payload together; three
tokens of a target hold a bracket, a colon or a dot at the start, in the middle, at the
end and next to each other, which are the places `normalize` looks at; a rule has
one label or two.
The timer fires at most once and the token is cancelled at most once because the
code cannot observe more. `CHECK_DEADLOCK FALSE`: a run that has returned and
whose processes are gone really stops.

Fairness. Weak fairness on the future, on each reader task, on the timer, on
tokio's orphan reaper, on the kernel's teardown of a pid namespace, in Helper on
the straight-line code of the stages, and in SandboxRun on accept loops, aborted
tasks, dialling and the ends of copies: each is a scheduler or a clock that runs
what stays runnable. Nothing is assumed of the command, of processes it leaves
behind, of the caller or the canceller: they may do nothing for ever.
`ConnectionsEnd` makes its one assumption on a stranger in the open: every
upstream server closes at last. Without it the tasks of a connection outlive the
run, since the guard aborts accept loops only. In Tunnel each stage has two
weakly fair actors, the two threads of the pump or the two halves that
`copy_bidirectional` polls in turn, and an end in `reads` reads on; nobody has to
write, to shut down or to close. In ProxyConn the reads of the header are fair,
dialling is not: a connection attempt has no time limit in the code.

What the violated runs show:

- `spawn_hang`: `spawn.rs:14` says duration is bounded by the timeout. A process
  left behind by a command that is not in a pid namespace keeps the pipes open
  and the joins at `spawn.rs:123` wait for it without bound.
- `spawn_timed_out`: `types.rs:43` says `timed_out` means killed. The timer may
  win the `select!` against a child that already exited; the output then carries
  the child's own status and `timed_out = true`.
- `run_releases`: `proxy_bridge.rs:13` says the guard aborts every accept loop on
  every exit path. The guard is built after the last route; when a later bind
  fails, the loops of the earlier routes are detached and accept for ever.
- `fs_globs`: `transform.rs:17` says relative globs anchor under the working
  directory. Its path is put before the glob unescaped, so in a directory named
  `[s]` globset reads a class and finds nothing to mask. `linux_bwrap.rs:62` says the
  walk starts at the non-wildcard directory. It is cut at the first `*` or `?`, so a
  class before that stays in it; no such directory exists and the error is dropped.
  The command runs with both secrets readable, which the design document (`:154`)
  rules out.
- `conn_targets`: `matcher.rs:41` says a host is allowed only if a pattern matches.
  The match is with the target up to its first closing bracket (`matcher.rs:56`), the
  connection goes to the whole of it (`connect.rs:52`). A rule that is an IPv6
  address meets the same: `normalize` cuts an address at its last colon, so the
  longer address behind a bracketed target can leave the rule's text.

## 5. Proofs

`SpawnCaptureProofs` proves for every set of descendants, every pipe capacity,
cap and bound, from `SpawnAssumption` alone:

- `TypeCorrect`: `Spec => []TypeOK`. `TypeOK` is not inductive: `captured <=
  MaxBytes` needs `captured + pipe <= written` (`Accounted`).
- `CaptureCorrect` and `WritersSafe`: `CapturedIsPrefix` and `NoSigPipe`. The
  strengthening is that a task only drains once its buffer is full (`DrainInv`).
- `StatusCorrect` and `SetupFailureCaught`: `StatusIsOwn` and
  `SetupFailureNotAResult`, from `FutureInv`, which ties the future's position to
  status, stop reason and reader tasks.
- `Refinement`: `Spec => ImplementsCommand`, with the three invariants above:
  each action is a step of `Command` or leaves its variables alone; the step
  that matters is `JoinErr`, where both tasks have ended at EOF and `OutputExact`
  gives the bytes.

`HelperProofs` proves for every list of distinct routes and every set of ports,
from `HelperAssumption` and `PortAssumption`:

- `TypeCorrect`: `TypeOK`.
- `StagesCorrect` and `FailuresRecognisable`: `StageRecognised` and `SetupStatus`.
- `BridgeCanDial` and `BridgeCorrect`: `BridgeUnfiltered` and `RoutesAdvertised`.
- `Refinement`: `Spec => ImplementsEnforcement`.

All come from one invariant `IInv`. What a stage may rely on is spread over
environment, `argv0` and what exec left in force, so `IInv` says for each `pc`
which chain the process is in and how far (`LandlockChain`, `ProxiedChain`), how
many listeners are bound (`BoundInv`), that the target's environment is scrubbed
and names the bound ports (`BridgeInv`, `ImageInv`), that no filter is installed
before the fork (`FilterInv`) and what is in force before each restricting step
(`ForceInv`). There is one lemma per action that it is kept, on top of
`DieKeeps`, since each fallible step may end the process. The refinement needs
only two shapes of step: `Growing` (restrictions are added and the phase stays)
and `Ending`.

`SandboxRunProofs` proves for any number of routes and connections, from
`RunAssumption`:

- `TypeCorrect`: `TypeOK`.
- `ServedWhileRunning`: `CommandServed`. A command is only started in `spawn`,
  so the invariant says of `run` what `CommandServed` says of the command
  (`Served`), and how much of it is there at each earlier position (`Progress`).
- `ReleasedAtExit`: at the moment `run` is over no loop accepts and the sockets
  are gone. It needs that a guard knows every loop that accepts (`Guarded`), which
  is false between the first and the last route: the gap `run_releases` shows.
- `NothingReopens`: an action property, nothing is started after that.

`FsPolicyProofs` proves for every tree of paths, every set of policies, every cap,
every working directory and every nesting of roots, subpaths and masks, from
`FsAssumption` (the files there at the start are finitely many and include the
directories above them, a policy has finitely many globs, each well formed) and
`GlobAssumption` (a text ends in itself; a directory's name, pasted into a glob,
reads as itself, as a class or as a star it ends in):

- `TypeCorrect`, and `MarkerCorrect` for `MarkerMatchesNetwork`.
- `Confinement`: `WritesConfined`. The invariant says which layers each backend
  has put down by which step; from it, a layer that gives "write" is a writable
  root, and a read-only subpath, unless replaced, comes later than any of them.
- `NothingWithheld`: `WritesGranted`, the other direction. Its invariant `GrantInv`
  says that a directory of what exists exists (`ClosedInv`: a root that was not
  replaced is still there for a path below it), that the layers of sections 2 and
  3 are the roots and the subpaths and nothing else (`SectionsInv`), and that no
  root lost its layer (`RootsInv`). Among the roots that cover a path the last one
  exists because their depths and positions are bounded (`LastPair`), and no
  layer of another section comes after it.
- `CapRespected`: `MasksWithinCap`, which no run checks. `CapInv` adds that the files stay finitely many;
  the masks are an image of the matches counted, so no more than they.
- `Secrecy`: `PlainSecretsHidden`. What is asked of glob and working directory is
  how they are written, per backend (`ReadByWalk`, `ReadByRegex`); where it fails
  `SecretsHidden` does too: `fs_globs`, and section 6 for Seatbelt. Two arguments meet here. About the
  matchers: what a glob denotes lies below its static prefix (`PrefixFound`),
  globset matches it (`CrossingMatchesMore`) and so does the regular expression
  (`RegexMatchesMore`), whatever names, stars, classes and `**` the glob is made of
  and at whatever directory it is anchored (`ResolvedUnderstood`). About the
  layers: nothing that gives reads comes after a mask or a deny rule
  (`HiddenByLayers`). The matchers are recursive functions; that they satisfy their
  equations is `Recursion` in `Extrema`, and the induction over the components is
  done with the greatest position for which the claim fails.

`Extrema` holds what these proofs and the next ones share: least and greatest
elements, `Min` and `Max`, and the definition of a function by recursion from the
last position of a sequence.

`AllowlistProofs` proves, for every set of labels with any lower-casing
that leaves the separators alone (`LowerAssumption`):

- `RoundTrip`: of any text at all, spaces, stars and capitals included, the proxy
  reads in what core prints the very pattern that core had read. The lemmas under
  it say what `trim`, `normalize` and the splits at the first and last token
  return.

`ProxyConnProofs` proves for every header length, read size and cap, and the first
three whatever the allowlist decides, from `ConnAssumption`:

- `TypeCorrect`, `OneAnswer` for `AnsweredOnce`.
- `Pipelining`: `PayloadIntact`. The invariant says where the scan may stand
  (`Scanned`: once the header is over its end is the blank line's, or the cap was
  passed) and that what went upstream are the bytes from `header_end` on without a
  gap (`Forwarded`).
- `DecisionFollowsRules`: `DecisionAsMeant`, also from `NameAssumption` (which
  only types rules and targets: a target is any text without a space) and
  `LowerAssumption`. Each plain rule arrives as the pattern it means, written or
  built (`RuleReceived`, by `RoundTrip` and `PlainPrint`); a pattern matches a text
  exactly if its rule covers it (`MatchesMeant`, with `BehindDot` for the suffix);
  and of a target with a port and without a bracket `normalize` leaves the host
  that would be dialled (`PlainHost`); without a port none is.
- `AddressFailsClosed`: `AddressRefused`, for targets of any form. What `normalize`
  leaves of an address, bracketed or not, still has a colon (`AddressLeft`), and
  no pattern whose name has none matches that (`NamesMissAddress`).

`TunnelProofs` proves for a chain of any stages, any capacities and any number of
bytes, from `TunnelAssumption`:

- `TypeCorrect`: `TypeOK`, with the capacities (`Bounded`).
- `Refinement`: `ImplementsChannel`. The links alone do not say which bytes a stage
  has taken, so `IInv` says there are counters of the bytes read from each link
  and written on by each stage such that what lies in a buffer or a hand are the
  bytes that follow (`LinkFlow`, `StageFlow`, `EndFlow`), and that while nobody has
  given up a link that is shut, a copy that is done and all before them have
  carried everything (`Quiet`). The four ways a socket is closed (a bridge that
  does not start, one that returns, an end that closes, the target's exit) share
  one lemma, `CloseKeeps`. Every step is then one of the channel's (`Send`,
  `Deliver`, `Finish`, `End`, `Break`) or one its ends do not see.
- `EofIsMutual`: `EofWaitsForBoth`, from the same invariant.

Every safety property that a passing run checks, invariant or action property, is
thus a theorem. Left to TLC are the liveness properties (fairness and ENABLED are
out of the prover's reach): `ContainedReturns`, `FullPipeDrains`,
`DetachedReadersEnd`, `NoChildLeft`, `Settles`, `BridgeReaped`, `Answered`,
`RunReleases`, `ConnectionsEnd`, `DirectionsIndependent`, `EofCrosses`, `TunnelEnds`
and `HeaderRecognised`. TLC also evaluates the assumptions on the instances of the
runs. Assumed of the caller: its
environment does not already hold the two protocol variables (`POLICY_ENV`,
`STAGE_ENV`).

## 6. Not modelled

- The contents of BPF programs (only the restriction they establish), the
  constant base profile of Seatbelt beyond its rules on files, error texts,
  Windows, `detect()` (a compile-time constant), `ProxyServerHandle::shutdown`,
  which `run` never calls.
- `is_likely_sandbox_denied` (`denial.rs`), a search for words in stderr, and
  `ExecPolicy::check` (`execpolicy.rs`), a predicate on one string. Both are
  stateless, nothing in the library calls them, and their unit tests reach every
  branch: a model would repeat the definition.
- Symbolic links and canonicalisation of paths; writes to `/dev/null` and to bwrap's
  fresh mounts, which do not reach the host; the `exclude_tmp` field, which no
  backend reads.
- A proxied policy on macOS without a proxy address, refused by `transform`: `run`
  always supplies one.
- Of globs: `?`, a star inside a component, brackets that span two components. A
  name with `{a,b}` is a bracketed text, which Seatbelt takes literally and globset
  as alternates. Of texts: an IPv6 address with an IPv4 tail.
- Files of the host do not vanish or move in `FsPolicy`, except by `Replace`. On macOS
  only `file-read*` is denied, so a command may rename a hidden file inside a
  writable root to a name that no rule covers: a rule belongs to a path there. The
  design document (`:126`) argues that denying unlinks adds nothing, for paths
  outside the roots.
- Bytes of a header past the cap: they are taken for payload. `PayloadIntact`
  leaves them out.
- After a reset the kernel may drop bytes the reader had not yet read; Tunnel lets
  it read them or close, and promises nothing of a broken connection.

What the models show of the code beside the runs:

- On macOS `SecretsHidden` fails where `ReadByRegex` does. `seatbelt.rs:143` escapes
  the brackets of a class, which `secret-deny-read-design.md:143` promises, and casts
  each byte of a letter outside ASCII, in the glob or in the working directory, to a
  letter of its own; either way the rule matches another name and the command runs
  with the file readable.
- `reexec.rs:38` says a genuine result is not classified as a setup failure. A target
  that ran and exits with 121, 122 or 123 is: the code alone is looked at, not the
  sentinel on stderr.
- `policy.rs:53` says the printed form of a pattern round-trips. `Exact("*")`, which no
  parser returns but a caller may build, prints as the pattern for any host, and
  `Exact("*.x")` as the one for the subdomains of `x`; spaces around a built name are
  lost. `Plain` leaves these out of `DecisionAsMeant`, and `OnlyAllowedHosts` fails
  for them.
- `proxy_bridge.rs:42-44` says the relay returns when either half closes, but
  `copy_bidirectional` waits for both. `matcher.rs:56` gives `::1` for `[::1]:443`, but
  the next line cuts that to `:`. `linux_bridge.rs:264-268` notes in a test that
  half-close is not propagated, which is `EofWaitsForBoth`.

`PROJECT.json` has the full list of components.

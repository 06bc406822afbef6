# A TLA+ model of mime-rs

mime-rs is a text-editing engine driven by small Lisp programs or declarative
tool calls. Its promises are about *state*: a failed program changes nothing, a
rehearsal leaves no trace, a save never destroys text somebody else wrote, an
undo leads back, a crash never leaves half a file, a rebase lands whole or not at
all. Those promises are spread over components that share versions, stamps and
counters, and over processes that do not know of each other. This directory
models them in TLA+, checks the models with TLC and proves the most important
results with TLAPS.

1. [The system](#the-system)
2. [The modules](#the-modules)
3. [The runs](#the-runs)
4. [The proofs](#the-proofs)
5. [Known divergences](#known-divergences)
6. [Assumptions and fairness](#assumptions-and-fairness)
7. [What is not modelled](#what-is-not-modelled)
8. [Plan](#plan)

## The system

| component | source | state it keeps | operations | what makes it correct |
|---|---|---|---|---|
| editing session | `engine.rs` | current buffer, `synced_version`, `reread_generation`, checkpoints, undo ring | run, rehearse, roll back, undo, revert, save | equal versions mean equal texts; clean means on disk; a rewind stays savable; no lost update; a failed run or a rehearsal leaves nothing behind |
| tool front end | `mcp.rs` | the map of warm sessions and their recency | resolve, open, close, evict, edit-and-save, preview, batch edits | eviction costs no edits; a batch edits all its files or none |
| workspace store | `rpc.rs` | workspaces in order of age, a pin | mint, use, evict, close | room costs no work; the oldest idle one goes first |
| file replacement | `safety.rs` | nothing in memory; temporary files on disk | write a sibling, sync, rename; stamp, check | all or nothing, whatever fails or dies |
| file-backed store | `quire.rs` | piece tree, page cache, file stamp, drift flag | open, read pages, edit, snapshot, rebase | what is not flagged stale is one whole state of one file |
| in-memory store | `buffer.rs`, `store.rs` | text, point, mark, narrowing, markers, version | edit, search, narrow | positions stay in range; a change takes a new version |
| history sequencer | `sequencer.rs` | the saved state of a rebase, refs, the worktree | begin, drive, continue, skip, amend, abort, finish | the branch moves once, to the whole plan; other people's commits and uncommitted work stay |
| partial changes | `sequencer.rs` | the `-worktree` refs | fold, absorb, discard, commit, split, move hunks | what is selected moves, all of it and nothing else |
| conflict vocabulary | `conflict.rs` | none | scan and resolve hunks | settling in any order ends at the sides chosen; other text is untouched |
| scanner and things | `sexp.rs`, `motion.rs`, `builtins.rs` | tokens of one command | move over, take and kill words, sexps, lists | forward and backward agree with the text's structure |
| filling | `fill.rs` | none | refill paragraphs, messages, comments | a fill does not depend on the layout it finds |
| edits by name | `mcp.rs`, `builtins.rs` | the call under way, nodes held | replace and insert at patterns, anchors, scopes, things | the edit lands where the call said, or nowhere |
| syntax | `syntax.rs` | a parse cache keyed by version | parse, query | the cache is never older than the text |
| tool arguments | `mcp.rs` | none | rewrite borrowed spellings, refuse undeclared keys | a call says one thing, or is refused |
| grep | `mcp.rs` | none | walk, match, report | exactly what the tree holds, up to the limits said |
| transport | `http.rs`, `rpc.rs` | legacy sessions and modern handles, both workspaces of the store | admit, route, dispatch, reply | no client reaches another's workspace, and none is lost to its own client |
| rewrites, previews, messages | `sequencer.rs` | the ring of backup refs | reword, rewrite, fill, run over commits, rehearse, compare | only what was asked is re-created, the old tips are kept, a rehearsal is right |
| trusted programs | `builtins.rs`, `engine.rs`, `tui.rs`, `tui_step.rs`, `cli.rs` | the buffers of a session | evaluate forms, step back by replaying, write back | a replay ends where the first evaluation did |
| shell calls | `cli.rs` | one warm workspace | one call per line | edits are saved, or reported as dropped |
| daemon | `daemon.rs` | sessions by name | open, run, rehearse, save, close | what a client was told of stays; everyone who asks is answered |
| patterns | `regex_dialect.rs` | none | translate, quote | a pattern means what it says in Emacs |

A client's call goes `http.rs` or stdio → `rpc.rs` (which workspace) → `mcp.rs`
(which session; re-read it if it is clean and its file drifted) → `engine.rs` (run
the program under a guard, keep an undo step) → `builtins.rs` → the store. A save
goes the other way: `engine.rs` checks the visited file's stamp, `safety.rs`
replaces the file, `quire.rs` re-opens it and takes the new stamp. The git tools
go from `mcp.rs` to `sequencer.rs`, which keeps everything on disk, since the
operation it stops in one process is continued by another.

The server is single-threaded: a call holds its session from its first step to
its last, so calls never overlap. What does interleave is the rest of the world.
Other programs, other mime processes among them, rewrite, replace and delete the
files a session visits, between any two system calls, and move the branches a
rebase works on between two calls. Processes die and machines stop. Programs fail
half-way. These are the hard behaviours; each hazard is listed in `PROJECT.json`
at its line, with the properties that would catch it.

## The modules

| module | models | built on |
|---|---|---|
| `Session` | one `Workspace` of `engine.rs` under the tools of `mcp.rs` | |
| `WholeFile` | the abstract promise of a save | |
| `AtomicSave` | `save_to`, `write_atomic_with`, `rebase_to`, one system call at a time | implements `WholeFile` |
| `FileVisit` | open, stamp, page reads and cache of `quire.rs` | |
| `TextStore` | markers and bounded searches, shared by the two stores (`store.rs`) | |
| `Buffer` | the in-memory store of `buffer.rs`, and the abstract store | `TextStore` |
| `PieceTree` | the measured tree of `quire.rs` | `TextStore` |
| `Quire` | the store of a visited file, its coding and save | `PieceTree`; implements `Buffer` |
| `Conflict` | `conflict.rs` and the conflict commands | |
| `Scanner` | `sexp.rs`, `motion.rs`, things and kills | |
| `Fill` | `fill.rs`, and the fills of programs and of commit messages | |
| `Edits` | `replace_text`, `insert_text`, node edits: how a call finds its place | `Buffer`, `Scanner` |
| `Eviction` | which entries of a recency or age order are dropped for room | |
| `WarmSessions` | the map of sessions of `mcp.rs`, `replace_in_files` | `Eviction` |
| `WorkspaceStore` | the map of workspaces of `rpc.rs` | `Eviction` |
| `Sequencer` | `sequencer.rs` over its state file, refs and worktree | |
| `Hunks` | diffs, selection, application and blame as `sequencer.rs` uses them | |
| `Reslice` | fixup, absorb, discard, commit, split, move, autosquash | `Hunks` |
| `Rewrites` | reword, message rewrite and fill, `git_exec_over`, the backup ring, signing | |
| `Messages` | quotes found in messages; `fixup!` and `squash!` subjects | |
| `Previews` | the rehearsal of a plan, plan-less replays, `git_range_diff` | `Hunks` |
| `Commands` | motions, kills, bulk replaces, filters, sorts and overviews over the store | `Buffer` |
| `Patterns` | `regex_dialect.rs` | |
| `Programs` | how `tui_step.rs` and `cli.rs` find the forms of a text | |
| `Scripts` | a trusted program over buffers and files, stepped, run or rehearsed | |
| `Calls` | `mime call` | |
| `Arguments` | the arguments of eleven tools | |
| `Search` | the grep tool | |
| `Transport` | requests of legacy, modern and stdio clients | `WorkspaceStore` |
| `Daemon` | the daemon and the clients on its socket | |
| `Session_proofs`, `Files_proofs`, `Daemon_proofs`, `WarmSessions_proofs`, `Transport_proofs`, `Sequencer_proofs`, `Reslice_proofs`, `Rewrites_proofs` | theorems | the module each is named after (`Reslice_proofs`: `Hunks` too; `Files_proofs`: `AtomicSave`, `WholeFile` and `FileVisit`; `Transport_proofs`: `WorkspaceStore` too) |
| `MC*` | constants, inputs and symmetry for TLC; four of them put several modules under one run | |

The four that bundle: `MCFiles` has `AtomicSave`, `FileVisit` and `Daemon`;
`MCReslice` has `Reslice`, `Rewrites`, `Messages` and `Previews`; `MCServer` has
`Transport` with its store, `Edits`, `Arguments` and `Search`; `MCVocabulary` has
`Conflict`, `Scanner`, `Fill`, `Commands`, `Patterns`, `Programs`, `Scripts` and
`Calls`. Each initial state belongs to one of the parts and stays in it: the parts
are checked beside each other, they do not interact.

Operators that begin with "Mutant:" in their comment are what a plausible mistake
would make of the operator below them. They are used by no specification; each
shows that a property notices that mistake.

`PROJECT.json` maps each definition to the lines it translates. A helper that only
names a part of what one other definition does has no row of its own: the lines of
the definition that uses it include its own.

### Session

A program is a sequence of builtins that ends well (`FinishOk`), dies
(`FinishErr`), or was only rehearsed (`RollBack`). What matters about a builtin is
whether it replaces text (`Edit`), re-reads the file (`RevertBuffer`), takes or
restores a checkpoint, or opens, leaves or aborts a transaction. A store is its
text, its content version and the stamp of its file, as in the code, and one
history field, `base`: the outside change its text derives from.

`BeginRun`, `BeginRehearse` and `BeginPreview` are the three ways `mcp.rs` starts a
program; all re-read a clean drifted buffer first (`Served`,
`auto_revert_if_clean`). `guard` is the snapshot `run_value_with` compares with and
rolls back to, `mark` the `RehearsalMark`. A preview holds both. `SaveAfterEdit` is
the save at the end of an editing call, `SaveBuffer` the tool, `UndoLast` the
rewind with its own save.

### AtomicSave and WholeFile

`save_to` is a sequence of system calls, and the model has one action for each:
`Check`, `CreateTmp`, `WriteTmp`, `SyncTmp`, `Rename`, `RebaseStamp`,
`RebaseRead`. Each may fail (`FailSave`, `RebaseFails`), each may be the last of a
process that dies, and between any two another process may do any of its own. The
disk knows whether its data is synced; a power loss tears what is not. `WholeFile`
says what the caller may rely on: one moment at which the whole text is in place,
success reported only after it. The refinement maps `file` to the visited file,
`want` to the text each buffer has to save, and `state` to five phases of `pc`.

### FileVisit

The inode is separate from the path: an atomic save elsewhere replaces the inode,
an in-place writer rewrites a page of it. A page is the number of the write that
put it there, so two pages are of one state exactly when their numbers agree with
one inode's. `index` is what the open's scan saw; the cache holds what was read
later. `Touch` is the LRU order of `page`.

### Buffer, PieceTree and Quire

A store is a record: text, point, mark, restriction, markers, last match. Each
operator of `Buffer` is one method of `buffer.rs`, each action one builtin of a
program, including `save-excursion` and `save-restriction` frames and the snapshot
of a checkpoint. A regular expression is a literal that may be anchored at a line's
ends: the stores differ in the context anchors see, not in the matching engine.

`PieceTree` has bytes where `Buffer` has characters: a file is a sequence of bytes,
among them the two of a long character and the CR of a DOS ending, which folds with
the newline after it. Pieces point into the file or into the inserted text; leaves
and nodes cache the bytes, characters and newlines below them; splitting counts one
side and subtracts for the other, as the code does. `Quire` adds the memo of the
last seek, the doubling window of a regex search, coding and save.
The refinement maps the pieces to the characters they stand for; the rest of
`Buffer`'s state is copied. The other invariants say what the refinement cannot
see: every cached total and memo is what a recount would give, and every read
(characters, lines, columns, spans) is what the bytes say.

### Conflict, Scanner, Fill, Commands

Pure vocabulary on one buffer. `Conflict` keeps, beside the lines, the `tree` of
nested conflicts the file stands for; the commands see only lines and scan again
each time. `Scanner` translates the lexer, the scan forward and the scan backward
with their different starting points, and the motions, kills and selectors on top.
`Fill` has a line as its words with their widths and what each makes of a line it
begins; the frames of comments, quotes and list items are the code's. `Commands`
sets each command, written over the store's methods as the code writes it (a walk
from match to match, a loop over lines, a position kept in a marker), beside what
it is to do to the text.

### Patterns, Programs, Scripts, Calls

`Patterns` reads a pattern and its translation into tokens, each in its own
dialect. `Programs` builds a text from data whose extents it knows, so that the two
scanners of the code are compared with the truth and not with each other.
`Scripts` has the buffers of a session in their slots, the snapshot a failed form
rolls back to, the disk, and the stepper's way back: forget everything and run the
forms before this one again, on files others may have written. `Calls` has the
lines of a call script one after the other, and what is said about edits the end of
the process drops.

### Edits, Arguments, Search

One warm session whose file others write. A call is one program, or four in a row
when it names a thing: find the line, find the thing, edit, save. The state between
two of them is what the code carries: a line number, a span, a version. Before each
program a clean buffer whose file drifted is read again (`Serve`), so what was found
may be stale. Programs of the client narrow, move, undo and keep syntax nodes, each
with the version it was parsed at. The syntax tree itself is external.

`Arguments` takes a call as a function from keys to values and follows it through
the code's passes: borrowed spellings, undeclared keys, the parsers of each tool.
The reference is the reading of a person: every key given must show in the result,
or the call be refused. `Search` walks a tree in any order the system may list it;
the reference is the set of matching lines of the files that git does not ignore.

### Transport

A request goes through `http.rs` (origin, path, verb, session id), `rpc.rs` (era,
headers, method), the dispatch of tool calls (which workspace, made now or held),
and back. `ToolsCall`, `Route` and `Dispatch` are the functions of these names in
the code; each returns what is to be done to the store and what is to be said, and
`Serve` (HTTP) or `Line` (stdio) applies it. `known` is what each client has been told, `unheard` the handles
minted for an answer nobody receives, `exchange` the last request with its reply.
Clients send every request with every handle they know, and forged ones.

### Daemon

One connection is served to its end, then the next from the backlog. `mime` with a
session asks one thing and leaves; a peer may ask again over its connection. Either
may hang up at any time, the daemon may die and with it its sessions; a client is
told of an edit only by an answer it receives.

A session opened with a file visits it and bears its stamp. `OpSave` is refused over
that file when the stamp is no longer the file's (`Drifted`, `stale_visit`); else it
writes, and the session visits what it wrote (`Rebased`), unless the written file
cannot be opened again: then it keeps the old stamp, and its next save over that file
is refused. A session opened with a text is a `Buffer`: it visits no file, a save
does not change that, and none of its saves is refused for drift. So neither is a
save to another path than the visited one. Several sessions may visit one file, and
`OthersWrite` puts another file in its place.

### WarmSessions, WorkspaceStore, Eviction

Both maps evict by the same loop: walk the order from its old end, drop what is
idle, stop when there is room (`Victims`, one definition for the two). In
`WarmSessions` a session is its file, its text, its stamp, whether it is clean and
whether it is read-only; ids are names a client chose or the canonical path
itself. `replace_in_files` is the
long operation: `BeginBatch`, `EditNext` per file (it opens sessions as it goes,
each at the price of an eviction), `EndEdits` with the undo of every edit when one
failed, `SaveNext` per file, `EndBatch`. Files change under it between steps.

### Sequencer

A tree is the set of changes it contains and a commit the sequence of the trees of
its history, so that ancestors are prefixes, a cherry-pick is set difference and
union, and a fixup replaces the last element. `saved` is
`.git/mime-sequencer.json`, `st` the state in the memory of a running call, `pc`
where that call is; every write to a ref, to the state file or to the worktree is
an action of its own, and `Crash` may end the call before any of them. The
conflict of a step is a choice of the model, its resolution what the merge would
have made. The user edits files at pauses, one of which no step touches and `begin`
parks when it is dirty. Another process moves or deletes the branch or the second branch between
calls. `Plans` are the plans callers give: lists of commits with `pick`, `edit`,
`fold` (squash and fixup), `split` and `drop`, and the one-step plans of cherry-pick
and revert.

### Hunks and Reslice

Here files have lines: numbers in rising order, the same in every version that has
the line, so that a hunk put at the wrong place breaks the order. `Hunks` has the
arithmetic of `sequencer.rs` on hunk headers: which hunks a selector takes, where
they go in another version, what is left of a diff, who owns a line. `Reslice` has
the calls built on it, one write at a time, with the `-worktree` ref the folds park
uncommitted work on, and the replay between parking and restoring. What the calls do
over hunks or directives is written as recursive functions, so that it can be proved
about.

### Rewrites, Messages, Previews

`Rewrites` re-creates chains of commits: a commit is what its history is made of, so
equal histories are one object and a re-creation that changes nothing is no new
commit; a signature is new each time. `Messages` has messages as characters,
since a quote may be wrapped where it stands and unwrapped where it is given, and
subjects as markers before a title.
`Previews` sets each forecast beside the replay it foretells, both translated from
their own functions.

## The runs

| run | question | bounds | size |
|---|---|---|---|
| `SessionUndo` | guards and undo of a session without checkpoints; no lost update | 2 texts, 4 versions, 4 stamps, ring of 2 | 248,342 states |
| `SessionCheckpoints` | versions, failed runs and rehearsals with a named checkpoint | 2 texts, 4 versions, 3 stamps, 1 checkpoint | 1,967,351 |
| `Files` | saves: litter, rebase, the refinement; a fresh visit is whole, reads end; the daemon | 2 processes, 2 texts, 4 stamps; 3 pages, cache of 2, 3 writes; 2 runs of mime, a peer, 2 sessions, 2 lines, 1 death, 1 write by others | 1,539,180 |
| `Quire` | the piece tree implements the buffer; its caches and reads are true; saves keep endings | 3 files, nodes of 2, 4 steps, 1 marker, 1 frame | 99,978 |
| `Vocabulary` | conflicts, motions, selectors, fills, commands, patterns, programs, scripts, shell calls | below | 401,655 |
| `WarmSessions` | eviction; batches are all or nothing | 1 name, 2 files, cap of 1, batches of up to 3, 2 stamps | 4,421,376 |
| `Server` | edits by name, arguments, grep, the store, requests of two clients | below | 605,334 |
| `Reslice` | hunks, folds, recuts, rewrites, messages, previews | below | 485,378 |
| `Sequencer` | replay, other branches, parked work, crashes | 2 or 3 commits, 1 operation, 1 crash, 1 foreign change | 756,343 |
| `SessionLostUpdate` | *violation*: lost update through a checkpoint | as `SessionCheckpoints`, 4 stamps, ring of 1 | |
| `SequencerSkip` | *violation*: a skip before a fold | 3 commits, plans with a fold | |
| `ScriptCoding` | *violation*: a write-back in another coding | as `Vocabulary`, scripts only | |

Sizes are distinct states. Every run ends within five minutes.

*Why the bounds are enough.* Two texts tell "same" from "changed", which is all the
session compares; four versions let a buffer be loaded, edited, re-read and edited
again, the longest story a guard or a rollback has to tell apart, and four stamps
let it drift twice. A ring of two has a step that is dropped and one that stays. A
cache of two pages under a read of three must evict within one read. A cap of one
with two files and a name forces every eviction, also of the session the batch has
just opened. Three commits are the least for a fold with a drop before it; the
plans have a fold over a drop, a fold into an edited commit, a split after another
order and a reordered edit, each on the old base and on a new one, with the other
branch at every commit of the history, moved along or left, and with the worktree
clean and dirty; one-step plans are cherry-picks and reverts. Symmetry is used only
over texts, names and files, and never in a run with a liveness property.

*Quire.* A file with a long character, a DOS file with a byte-order mark, a bare
newline and a bare CR, and a plain DOS file. With two pieces to a leaf and two
children to a node, a few edits split nodes and let them merge again. The windows
of a regex search start at one byte, so that every search sees a cut.

*Vocabulary.* Five conflict trees (plain, diff3, nested with the same and with
another marker length), settled in every order; thirteen texts in Go, Python and
Emacs Lisp with comments, strings and unbalanced brackets, under motions,
restrictions and one kill; seven pages of prose filled at columns
8, 14 and 20 in any order; three buffers of lines with six expressions and three
templates, any two commands; patterns of up to four of 13 fragments; programs of up
to two of 13 data in six gaps; scripts of three of 16 forms in three modes, and
call scripts of up to four of ten lines, each with one write by another program.
Wider inputs passed outside the run: every text of three fragments for the scanner
(246,920 states), programs of three data (417,859).

*Server.* Five handles under a cap of two for the store by itself; two clients,
three workspaces made, under every request with at most one thing amiss. The
transport alone passed with four (80,217 states). A warm session under up to two
calls that edit; every call of eleven tools with up to four added arguments; grep
over four trees in all orders of listing, with six globs, five limits, two widths
of context, and bounds of four files, two levels and four columns.

*Reslice.* Four commits of three files, three worktrees, one line of context, so
that neighbouring hunks touch: one call, with edits, staging or an edit stop before
it and a death in it. Three commits with a side branch at four places for two
rewrites, a backup ring of two, signing off, on and refused, one foreign change.
About 650 messages; branches of up to four marked subjects. Rehearsals: branches of
three and four commits in seven stories under some 2,000 plans. A command over the
history may do what it likes at each commit, and git may fail at each visit and on
the way back, with the files of the commit written, half of them or none.

*Files.* Two runs of `mime` and two lines of a peer are the least for the story
`DaemonKeepsEdits` is about: two sessions open one file, one saves, the other does.
Another program's file may land between any two of them. The daemon alone passed its
safety with a third line (4,244,310 states), and with two writes by others, removals
among them (2,136,433).

Every run sets `CHECK_DEADLOCK FALSE`: a server with nothing to do may stay idle,
and the bounded counters end. That nothing hangs is stated by
`WaitersAreServed` and `CallsReturn`.

### The properties

* `CleanMatchesDisk`: a buffer that counts as clean and bears the file's stamp holds
  the file's text. `RewindStaysSavable`: what an undo leads back to can be saved.
  `NoLostUpdate`: a save never replaces an outside text the buffer does not derive
  from, whatever was run, rehearsed, rolled back, re-read and rewound before.
* `EqualVersionsEqualText`, over every snapshot held. `RefusedRunKeepsText`.
  `RehearsalLeavesNoTrace`: not only are the checkpoints and the ring put back, each
  would also restore to what it restored to.
* `LitterOnlyOfTheDead`, `SavedBufferIsCurrent`, and `SavesAreWhole`: the seven
  system calls implement the one abstract step of `WholeFile`.
* `FreshVisitIsWhole`: pages read at different times never pass for a document.
* `DaemonKeepsEdits`: an edit a client was told of stays until the session is opened
  anew or closed, a refusal changes nothing, a read-only session keeps its text, and a
  save over the file a session visits only adds to what is there, whichever session
  or other program put it there. `WaitersAreServed`: a read of a visited file ends,
  however small the cache, and a `mime` that asked gets to its end unless a client
  that holds its connection is served for ever.
* `WhatIsKeptIsTrue`: every total, memo, marker and position the tree keeps is what
  a recount gives. `ReadsAgree`: every read is what the bytes say.
  `ImplementsBuffer`: the refinement. `SaveKeepsEndings`: a save mixes no endings
  and touches nothing that was not edited.
* `HunksAreConflicts`: the hunks found are the conflicts in sight, and settling them
  in any order loses no other line and leaves no marker of a settled one.
  `MotionsReachWholeSexps`: a motion crosses exactly one sexp of its group, forward
  and backward alike although the two lex from different places. `SelectorsAgree`:
  a thing is the same from each of its characters. `FillsForgetLayout`: a fill is
  what the text and the column make it, however often the page was filled before.
  `CommandsAreExact`: the replace, the counts and the overview walk the same
  matches, filters and sorts keep lines whole, nothing reaches outside the
  restriction. `SourcesReadAsWritten`: a translated pattern reads as the original
  or is refused, a program is split at its data. `ScriptsKeepTheirWord`: stepping
  forward and back stands where one pass would, a failed form changes nothing, and
  `mime call` loses no edit without saying so.
* `EditsLandWhereNamed`: an edit lands where the call names, in the text the call
  named it in, whatever was narrowed, undone or written in between; a call that
  refuses leaves the text alone. `CallsSayOneThing`: two spellings never
  both count, and no key is lost silently but those listed below. `GrepIsExact`: what
  grep tells is there, and what it leaves out it says it has left out.
* `RoomCostsNoWork`: only an explicit close costs a workspace with unsaved edits.
  `ClientsKeepTheirWorkspaces`: no two clients are told of one handle, every
  workspace kept can be returned to, the two forms of a reply name the same handle,
  only those told of a workspace change it, and what is refused does nothing.
* `EvictionSparesEdits`; `BatchesAreWhole`: a batch over more files than the cap is
  all or nothing although its own opens evict sessions.
* `FinishReplaysPlan`: where the branch moves, it moves to the tree and the number
  of commits of every step that was not dropped or skipped, through conflicts,
  pauses and crashes; another branch ends on the first commit of the new history that
  has everything of its own. `OthersCommitsStay`: no call moves a branch from a tip
  its operation did not know, so no step undoes what another process committed or
  deleted. `ParkedWorkSurvives`: uncommitted work is in the
  worktree or on its ref all the way, and however an operation ends, HEAD is
  attached, nothing is staged, and the work is back or, for a reason, on its ref.
* `HunksFallInPlace`: a hunk applied to another version lands where its lines are.
  `WorkIsSomewhere`: every file a call found is in the worktree or on its ref.
  `CallsAreExact`: what was selected moved, all of it and nothing else; absorbed
  hunks reach the commits that own their lines; recuts have the same sum.
  `RewritesLoseNothing`: trees and untouched messages stay, old tips are in the
  ring, branches move only where what they point to was rewritten; running a command
  over the history never touches the user's untracked file nor takes HEAD out of
  reach, and leaves no trace when the answer is that it ran or that nothing changed.
  `MessagesAreExact`: a quote is found however it is
  wrapped and nowhere else; a marker folds into its target. `ReplaysAreForetold`:
  a rehearsal says what the replay then does, nothing is replayed twice, and a
  comparison pairs each commit with its own.

Each is shown to notice a plausible mistake: `PROJECT.json` lists one mutant for
every property of every passing run.

### What the violations show

* `SessionLostUpdate`. A failed run puts the re-read generation back but keeps the
  checkpoints it took at the higher number. A later re-read reuses the number, and
  a restored checkpoint then takes the stamp of a file it never read. `CleanMatchesDisk`
  fails in the same way once checkpoints are allowed, so it is checked without.
* `SequencerSkip`. The commit another branch moves to is recorded when its boundary
  is reached. If the next step is skipped and the one after it folds, that commit
  is replaced, and the branch ends on one the new history does not have.
* `ScriptCoding`. `mime run --write` and the stepper's write put the decoded text in
  the file: a CRLF file comes back with LF, a byte-order mark is gone, against
  `coding.rs` 5-8.

## The proofs

Every theorem holds for every value of the constants that meets the module's
`ASSUME`: all sets of texts, processes, clients, handles and pages, all caps and
bounds, all plans, batches of any length.

| theorem | module | what it says |
|---|---|---|
| `SessionTypeOK` | `Session_proofs` | the type invariant, the ring's cap included |
| `VersionsIdentifyText` | `Session_proofs` | `EqualVersionsEqualText` |
| `UndoStaysSavable` | `Session_proofs` | `RewindStaysSavable` |
| `RefusedRunsKeepText` | `Session_proofs` | `RefusedRunKeepsText`, for read-only sessions too, which no run has |
| `NoLostUpdateWithoutCheckpoints` | `Session_proofs` | `NoLostUpdate` when `MaxCheckpoints = 0`; with checkpoints it is false |
| `CleanIsOnDisk` | `Session_proofs` | `CleanMatchesDisk` when `MaxCheckpoints = 0`; with checkpoints it is false |
| `RehearsalsLeaveNoTrace` | `Session_proofs` | `RehearsalLeavesNoTrace`, for any number of checkpoints |
| `FileNeverTorn`, `OnlyTheDeadLitter`, `SavedIsCurrent` | `Files_proofs` | `NeverTorn`, `LitterOnlyOfTheDead`, `SavedBufferIsCurrent` |
| `SavesAreAtomic` | `Files_proofs` | `SavesAreWhole`: `AtomicSave` implements `WholeFile` |
| `FreshVisitsAreWhole` | `Files_proofs` | `FreshVisitIsWhole` |
| `EditsAreKept` | `Daemon_proofs` | `DaemonKeepsEdits`: its invariant and its action property |
| `WarmSessionsInvariant` | `WarmSessions_proofs` | the inductive invariant of the map and of a batch under way |
| `OpeningCostsNoEdits` | `WarmSessions_proofs` | `EvictionSparesEdits` |
| `BatchesAllOrNothing` | `WarmSessions_proofs` | `BatchesAreWhole` |
| `WorkIsNeverEvicted` | `Transport_proofs` | `RoomCostsNoWork` |
| `ClientsAreKeptApart` | `Transport_proofs` | `ClientsKeepTheirWorkspaces` |
| `SequencerInvariant` | `Sequencer_proofs` | the inductive invariant of an operation |
| `WorkSurvivesOperations` | `Sequencer_proofs` | `ParkedWorkSurvives` |
| `SequencerTypes` | `Sequencer_proofs` | the type invariant, the state file's included |
| `OthersCommitsSurvive` | `Sequencer_proofs` | `OthersCommitsStay`, for any number of operations |
| `ResliceInvariant` | `Reslice_proofs` | the inductive invariant of the history tools, types included |
| `HunksFall` | `Reslice_proofs` | `HunksFallInPlace`, for any files, contexts and selections |
| `WorkIsNeverLost` | `Reslice_proofs` | `WorkIsSomewhere` |
| `RewritesKeepTheirWord` | `Rewrites_proofs` | `RewritesLoseNothing`: its three invariants and its action property |

*Session.* `TypeOK` is not inductive: a rollback restores versions and a ring from
the guard or the mark, so `TypeInv` adds that those were valid when taken. Every
step then obeys `SnapshotsGrow`: what the session holds afterwards it held before,
or is the new buffer; and that buffer repeats a snapshot's content or has a
version never given out. Versions identify texts by that alone.

*Undo and saves.* `Eras` says that all steps of the ring date from one generation:
the current one, or, while a program runs, the one its guard recorded. A run that
re-reads empties the ring when it ends, and one that fails puts the generation
back. `Bases` says that a snapshot whose stamp is the disk's derives from what is
on the disk, for the buffer, the ring, the guard, the transaction and the mark at
once. It is inductive only because `Restore` hands the current stamp to snapshots
of the current era, and because without named checkpoints nothing outlives a
failed run, which is exactly what the violation uses.

*Clean means on disk.* `Truthful` says of one snapshot, a baseline and a stamp that
if it would count as clean under them, and the stamp is the disk's, then its text
is the disk's. `Truths` says it of everything that can be put back, each with the
baseline and the stamp it would come back under: the ring with the buffer's, the
guard and the mark with what they recorded. That, and not the buffer's own case, is
what every step preserves.

*Rehearsals.* `MarkKept`: whatever the rehearsed program does, the checkpoints of its
beginning stay a prefix of the checkpoints, so cutting back to their number gives
exactly them.

*Save.* The invariant ties each process's place to its temporary file (whole once
written, synced before the rename), keeps the visited file whole and synced, and
bounds every stamp and probe by the last change, a buffer whose save has replaced
the file by less than that until it is rebased. The refinement is then a
step-by-step map: `Rename` is `Replace`, the last step is `Report`, the rest
stutters.

*Visits.* The modification time of the path is the last write and no stamp is beyond
it, so a write after the stamp makes the two differ for good. While they agree no
write has happened since the stamp; hence every page read since equals the inode's
page as it is now, whether the scan or a later miss read it, and the scan leaves no
page out (`PagesAccountedFor`, from `PagesInOrder`: the order in which a finite set
is read names all of it).

*Daemon.* Sessions and what clients were told change only in the step that answers a
request, so the whole is a case split over requests, each shown `Proper` once; files
change there and in `OthersWrite`. Either stamps the file past every stamp there is
(`Stamped`), so a session whose stamp is still the file's began with what is in the
file and has only added to it (`Shows`): its save takes nothing back, and where it
may not be edited it has the file's text, so that a re-read changes nothing.
`DaemonAssumption` says what requests, and what others write, are made of.

*Sessions and batches.* A batch edits one file at a time, and each step may open a
session and evict others. `Undoable` says what the roll-back relies on: each session
that had unsaved edits when the batch began is still warm and unsaved, and its first
mark, if it has one, is what it was; every other session was clean at its first
mark. `Spares` says what an open may cost: never a session with edits. `EditsHeld`
says that what the batch changed is still warm. That a first mark exists is an
induction over a finite set of positions, done by its least element
(`FS_StrictSubsetOrderingWellFounded` and `WFMin`), since the prover cannot use the
library's induction schemes. `LeastExists` of `Rewrites_proofs` does the same for sets of
numbers, and gives the longest common prefix.

*Store and transport.* `VictimsAreIdle` says what `Eviction` drops; `InsertKeepsWork`
and `WorkIsNeverEvicted` follow action by action. A request is followed from the
tool outwards, through the protocol layer and the router; at each layer what it may
do to the store (`Acts`) and what it may say (`Says`, `Handled`, `Served`) are stated
once, so that the step of the whole is a short case split. The invariant: clients
know only handles that were made, no two the same, and what is in the store was told
to somebody, or made for a notification, or is stdio's own.

*Sequencer.* The operation in the memory of a call and the one in the state file each
say truly whether work is parked, in each place a call can be in; and once HEAD is
back on the branch, index and worktree are the branch's. A crash loses the first and
keeps the second, so both are needed; the next process begins with the second.
For other processes' commits `HistoryInv` has to know where HEAD is. A branch is moved
by `finish`, which looks whether it is still where the operation began, by
`move_branches`, which looks whether it is at the recorded tip, and by whatever
records a commit with HEAD on the branch. The last is the dangerous one: so HEAD is
detached from the first save until `finish` or `abort` attaches it, and from then on
the state file, while it still exists, is that of a finished plan, which `git_skip`
and `git_continue` find nothing to do in. The one exception is an abort that died
before it removed the file (`died = "forget"`), which is the listed divergence. And
the tip an operation began on, in memory and in the file, is the one the backup has.

*Hunks.* This is an induction over the hunks of a diff, done by the first one that
fails (`LeastExists`), with `RecursionExists` for what the two ways of applying them
compute. The spans of a diff are stretches of both sides, in order and apart, and
hold every changed line (`SpansAreStretches`). A file with some of the hunks applied
is the old one with those stretches exchanged (`Mixed`). By old line numbers, from
the last hunk up, everything before the next one is still as it was, so it falls in
its place (`AppliedByOldLine`). By new line numbers, the shift of the skipped hunks
is what separates the new side from the file so far (`IsShift`); but `git_apply`
takes the line before a side without lines for its first line. So a hunk without new
lines may be looked for one line early: it finds other lines than its own and is
refused (`HunkFallsInPlace`), never put in the wrong place. One without old lines,
which would fit anywhere, has new ones, and their number is true. With all the
hunks the result is the new side (`SubsetApplied`), which is why the ref of a fold
has all that diffs see.

*Folds and discards.* What diffs do not see is untracked: not in the index, hence not
in HEAD's tree (`Tracked`). No reset of a fold reaches such a file (`Spares`): the
first goes to HEAD's tree, a checkout over it is refused by `begin` and by each step,
and the abort goes back to the branch the call found, which does not have it; this
needs that the branch is not moved before the end (`Phases`), and that the steps of a
fold are picks and folds, which land exactly the merge that was looked at. What a
fold takes back is what the call found; a discard writes only files the ref has
(`WorkIsKept`). `ResliceAssumption` says what the inputs are: a history, worktrees and
parts made of files in order.

*Rewrites.* Four things are inductive together. The ring: a tip that `n` rotations
have aged is in one of the first `n + 1` slots, and while a rotation is under way
the slots it has written hold what was one slot before (`Halfway`), so a death in the
middle leaves some tip twice and loses none but the oldest. The plan of the call
(`Planned`): its messages are the old ones but where it was asked, and it begins at
the first commit whose history changes. The chain made (`Made`): so it agrees with
the old one up to there and differs from it there, which is why a branch holds a
re-created commit just when it shares more than that with the old chain
(`PartsWhereRewritten`). The branches (`Branched`): each of those is still to be
moved, moved, skipped or left behind, at every moment of the loop over the marks; one
that is to move is where the call found it (`Settled`). For commands over the
history, a file of the user's collides with no commit still to be visited nor with
the one HEAD returns to, whatever another process commits meanwhile, and HEAD is
where the call found it, at a commit of the history or at what the command committed
on one, also when git fails and the call returns from where it is. The theorem
takes the edits of a message (`Messages`) as given: what they are is
`MessagesAreExact`, which TLC checks.

### What is only model-checked, and why

* Liveness (`WaitersAreServed`, `CallsReturn`): out of the prover's reach.
* `Quire` with `PieceTree`, and `Scanner`, `Conflict`, `Fill`, `Search`, `Scripts`: they
  are recursions over text, and what a recursive definition computes for every input
  needs induction over data.
* `CallsAreExact` of `Reslice`, and `Messages`, `Previews`, `Commands`, `Patterns`,
  `Programs`, `Calls`, `Arguments`, `Edits`: their properties compare two computations
  over sequences of any length (a replay and the lines it should bring, messages
  rewrapped, matches walked), which is the same induction.
* `FinishReplaysPlan`: both halves compare the new history with a fold over the plan,
  whose value for every plan is again an induction over data.
* The orders of age in `WarmSessions` and `WorkspaceStore`: the proofs need only who
  is dropped, not which of the idle goes first.

## Known divergences

Three are runs (`SessionLostUpdate`, `SequencerSkip`, `ScriptCoding`, above). The
others are listed here; where a model leaves one out or a property makes an
exception for one, its comment refers to this section.

### Found by TLC

* *Session.* With named checkpoints `CleanMatchesDisk` fails for the same reason as
  `NoLostUpdate`.
* *Saves.* A write of the same length between the rename and the re-open of a save
  becomes the buffer's text under its old version.
* *Quire.* `rebase_to` (`quire.rs` 1249) reuses the live totals when a save joins a
  bare CR and a newline, against 1196-1198. A narrowing kept by numbers over an edit
  may reach beyond the text: `re_search` of a visited file then records a match there
  where the buffer clamps (`EditsOutside`). `replace-match` with an empty text leaves
  pieces of length zero. A DOS file with mixed endings whose first CRLF is deleted is
  detected as Unix when it is opened again. After deletions the width of a leaf has
  no bound (2098, against 886-887).
* *WarmSessions.* `save_buffer` in place checks other sessions' unsaved edits only
  when the session visits another file, not when it visits none (`mcp.rs` 3740).
* *Sequencer.* Each step's cherry-pick checks out by force, so a later step wipes
  what the user wrote into a parked file at a pause; the model takes `force()` at its
  documented meaning. Deaths the code does not survive: the state file counts a step
  as next before its merge is in the index, so a process that dies there, or in
  `git_skip` before its save, or in `git_abort` before the file is removed, leaves a
  clean index, and `git_continue` records the step without its change;
  `FinishReplaysPlan` leaves out the deaths in `Unmerged`, and only those. After the
  last of these `git_skip` moves the branch itself; `OthersCommitsStay` leaves that one
  out. A state file cut short makes every call refuse until it is removed by hand. A
  death between `Detach` and the first save leaves HEAD detached and the work only on
  its ref, one between `Forget` and `Restore` leaves it only on the ref; the next
  operation with a dirty file overwrites that ref.
* *Reslice.* A worktree fold or absorb while an operation is paused: `begin` refuses
  (`sequencer.rs` 1414-1418), then `run_plan_over_parked_worktree` (6418-6430) aborts the
  user's operation, against its own comment.
* *Conflict.* `conflict-keep-all` "returns the remaining count (0 on success)"
  (`builtins.rs` 2311): not for nested conflicts of one marker length.
* *Scanner.* `token_at` and `lex_upto` may cut inside an opener of several characters
  (`sexp.rs` 195-200). `thing_before` from inside a string returns the string although
  it ends after point; for `string` it includes prefixes, which `thing_after` and
  `thing_at` do not; it may return prefixes alone. The backward scan accepts a group
  whose inner brackets mismatch (`({])`), the forward one refuses it.
* *Fill.* A wrapped word that reads as a block marker at the start of a line breaks
  idempotence; the pages of the model have special marks only where lines begin. One
  space after a sentence becomes two after a wrap and a refill at a wider column.
* *Patterns.* A set that holds a bare `[` (also `&&`, `--`, `~~`) is copied as it is and
  read by the regex crate as a nested set, against `regex_dialect.rs` 23 ("rejected
  with a clear error instead of silently mismatching").
* *Scripts.* A rehearsal in the trusted tier puts the primary's snapshot in place of
  whatever buffer is current (`engine.rs` 743-787, against 720-723): a program that ends
  on another buffer leaves two of one name. Harmless at the command line.

### Found by reading

Edits and arguments:

* A `scope` or `anchor` of kind defun under a restriction: point is clamped, then
  whatever function encloses it is taken (`mcp.rs` 2459-2546, against
  `docs/mcp-tools.md` 88). A `thing` of kind defun skips the region check
  (`builtins.rs` 3253-3396, against 3796-3801).
* A refused scoped replace or anchor leaves point moved (`mcp.rs` 2517, against
  `docs/mcp-tools.md` 75). Uniqueness counts matches that do not overlap, and a line
  that holds the literal twice is refused although its doc says "unique LINE".
* `save-restriction` restores numbers: after an edit that grows the text the
  restriction loses its last characters (`builtins.rs` 1175).
* `delete-trailing-whitespace` stops early in a region that begins with a blank line
  (2024-2044). `count-matches`, `kill-region` and `delete-char` accept positions
  outside the restriction.
* Silently ignored: the top-level `all` and `expect_unique` of `replace_text` with
  `edits`; the `topic` of `help` with `tool`; the `plan` of `git_rebase` with
  `autosquash`; `worktree: true` of `git_fixup` with `paths` or `hunks` (only those
  are folded); `lines` of `git_blame` with `worktree`. Wrong types that default:
  `lines`, `plan`, `paths`, sessions, paths and `anchor.where` that are no strings.
  `SaysNothing` in `Arguments` lists those it excepts.
* `grep`: nested roots are searched and counted twice, each with its own relative
  glob; `**/main.rs` also keeps `domain.rs` (`mcp.rs` 3150-3156); a repository inside an
  ignored path is pruned; `capped` is also set when nothing but other entries
  remains; positions count raw characters, which differ from the buffer's in files
  with CRLF or a byte-order mark.

History:

* `range_diff` pairs per new commit by patch id, then by summary, interleaved, against
  its doc (`sequencer.rs` 5141). A rehearsal refuses a plan whose first pick
  conflicts and is followed by a fold (1795). A plan-less rebase drops a commit whose
  patch is upstream even when it was reverted there, as git does.
* Rewrites: the branch itself is moved without a second look; a signer that fails
  after the ring was rotated leaves copies of the tip in it; `git_exec_over` ignores
  ignored files, and its death leaves HEAD detached.
* `git_exec_over`: when git fails to move HEAD or to check out at a visit, the two `?`
  of `sequencer.rs` 5591-5592 return from inside the loop, past the code that begins
  "Put HEAD back where it was, whatever happened above" (5626). HEAD stays detached at a
  commit of the range, the answer does not say so, and the doc of the call says "the
  original HEAD (branch or detached) is restored afterwards either way" (5485-5487). The
  phase `stranded` in `Rewrites` is this; of it `ExecLeavesNoTrace` says only that the
  user's file is there and where HEAD may be. A failure of the put-back itself is
  told (5645-5652; `not restored`).

Front ends:

* A modern call without a handle, sent as a notification, is acted on and never
  answered: a workspace nobody can reach (`unheard` in `Transport`).
* `split_forms` does not count a newline escaped inside a string. `form_complete` takes
  any `?` for a literal, and returns at the first closing bracket. `' a` is split in
  two; a stray `)` is dropped; a `?` after `'` or `)` is no literal.
* A refused `find-file`, `insert-file-contents` or `write-file` is not counted as file
  I/O (`missed` in `Scripts`). The order of the buffer list changes with
  `set-buffer` and a rollback (`engine.rs` 172-173). A failed form that only switched
  buffers leaves the other current. `--write` and the stepper's write do not look for
  staleness. `mime rehearse` of a script with `write-file` writes (`cli.rs` 10, 816). A
  killed primary makes the write-back write the current buffer.
* `mime call` reports only edits of buffers that visit files.
* A second daemon removes the socket of a live one (`daemon.rs` 38-42). `open` replaces
  a session with unsaved edits.
* The daemon's saves are checked for drift only over the file a session visits: one
  to another path replaces whatever is there, which the comment at `engine.rs`
  1022-1024 calls "overwrites nothing of theirs", and a session opened with a text
  (`daemon.rs` 144) never gets a stamp (`buffer.rs` 613), so that it may save over one
  file again and again whatever others did to it in between. `DaemonKeepsEdits` leaves
  both out, and `Daemon` does them.
* `save_to` looks at the stamp once, before it writes the temporary file, so a write
  between that and the rename is lost; the open and the stat of a visit are not one
  step, so a file renamed over the path in between is held under the wrong stamp; a
  failed run that put the text back leaves a clean buffer reading as modified; the
  comment at `mcp.rs` 3724-3727 says that a save binds an unbound session to its file,
  which `rebase_to_file` does not do.

## Assumptions and fairness

* *Fairness.* Weak fairness on the steps of a read (`FileVisit`), of a call
  (`Sequencer`) and of the daemon's loop with the runs of `mime` that wait for it:
  loops of one thread that no other actor's step disables. Nothing is assumed of users,
  other processes, peers, or of a next call being made.
* A file's stamp (device, inode, mtime, size) differs after every write. Writers
  that keep all four are outside the model. In `Daemon` other programs replace files;
  what one that writes in place does to a mapped session is in `FileVisit`.
* In `Session` a save that fails on I/O changes nothing; `AtomicSave` shows this of
  the calls it makes. Transactions do not nest, checkpoint labels are distinct, and a
  program stays in the session's current buffer; `Scripts` has the others. All runs
  have `ReadOnly = FALSE`; `RefusedRunsKeepText` covers the read-only session.
* Session names a client chooses are not canonical paths of files. `open_file` and
  `open_text` replace a session with unsaved edits: that is documented, and
  `EvictionSparesEdits` is about the others.
* `WorkspaceStore` lets a server with a pinned workspace mint others. Over stdio the
  tools that do so are not offered; `Transport` has what is.
* A handle a client makes up is none of the server's (`TransportAssumption`): handles
  are random. Requests are served one at a time, and a reply is written before the next
  request is read.
* In `Rewrites` branches start unsigned, and the file a user has at a path some
  commits have is in none HEAD starts at, or it were tracked (`RewritesAssumption`).
  Between the check of a branch that is to follow and the transaction that moves it
  other processes do not act: that is a few system calls.
* In `Sequencer`, other processes act between calls, not within one: the window
  between `finish` reading the branch and moving it is not modelled.
* libgit2, tree-sitter and the regex crate are external: modelled by what the code
  gets from them.

## What is not modelled

* Views, outlines, diffs, reports and the wording of errors; the JSON schemas and help
  texts; the parsing of flags; the terminal's drawing. They make up most of the
  unmapped lines of `mcp.rs`, `sequencer.rs` and `cli.rs`: they read state and change
  none. `check_path`'s confinement to roots.
* *Session, Scripts*: the kill ring, the time limit; an insertion is one line; failures
  of write calls.
* *Edits*: rehearsals, fill and `apply_edits`; the undo ring has one step (`Session` has
  all). *Arguments*: keys that only change what is echoed, other tools.
* *Conflict*: a missing final newline, restrictions that cut a line. *Fill*: quote
  markers glued to text, tabs, block comments and docstrings, the depth cap of quotes.
  *Scanner*: the other languages' rules, defuns, mark and transpose. *Commands*:
  expressions are literals with anchors.
* *Sequencer*: untracked files, worktrees other than the main one, the report on refs
  left behind. *Reslice*: `after` of `git_commit`, the autostash of recuts, binary
  files, modes, renames, submodules, merges; a death in a restore followed by another
  fold; a fold below the owner of a line may not take, silently; a new file that was
  staged and not folded comes back untracked. *Rewrites*: merges, the legacy flat
  backup ref. *Previews*: splits, message edits and reverts in a rehearsal.
* *Search*: case folding, modes, sizes; the pattern is one character. *Transport*: the
  wording and size of bodies, the version `initialize` echoes. *Daemon*: path checks,
  what a program does in its session. *Calls*: the tools are edit, save and close.
* *Hazards no property covers*, since the code does not keep them from happening: a
  write between the stale check and the rename (`engine.rs` 1018), a death late in an
  abort (`sequencer.rs` 2174), a fold while an operation is paused (6422), `save_buffer`
  over another session's edits (`mcp.rs` 3740), the totals of a file where a save joins
  a CR and a newline (`quire.rs` 1249).

## Plan

Modelled so far: the session, its saves and visits, the two stores, the maps of
sessions and workspaces with the protocol around them, the edit vocabulary, the
history tools, scripts, calls and the daemon. What is left, in this order:

1. Proofs: the half of `CallsAreExact` that is about refused calls, for which the
   replay of a fold has to leave branch and worktree as they were; and its commits,
   now that part of a diff is known to be its stretches exchanged.
2. Composition: a session with its file visit and its atomic save, so that the stamp
   taken by one is the stamp checked by the other.
3. `git_commit {after}`, and the autostash of recuts, in `Reslice`.
4. `check_path` as a function of a small file system with links.

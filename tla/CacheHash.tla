----------------------------- MODULE CacheHash -----------------------------
(***************************************************************************)
(* The compilation cache of the stage1 compiler (src/src/cache_hash.cpp),  *)
(* used the way gen_c_object (src/src/codegen.cpp) uses it.  Processes     *)
(* compile the same source with the same parameters, so they share one     *)
(* manifest file, which the one that has the lock reads, and rewrites when *)
(* it is done.  Meanwhile the files are edited, time passes and processes  *)
(* die.                                                                    *)
(*                                                                         *)
(* The blake2b state of a process is the sequence of the file digests put  *)
(* into it after the parameters, and a digest is the content it stands     *)
(* for: the hash is taken to be collision free.  A line of the manifest is *)
(* an entry, or Torn when the end of the line was not written.             *)
(*                                                                         *)
(* A file is hashed through the descriptor that was opened when its        *)
(* attributes were read.  A write into the file shows through it; a file   *)
(* that is renamed over the name does not.                                 *)
(***************************************************************************)
EXTENDS Integers, Sequences

CONSTANTS
  Procs,
  Files, Contents,
  Inputs,       \* the files named by cache_file before cache_hit, in order
  Imports(_),   \* the .d file: what compiling inputs with these contents reads
  Granule,      \* resolution of the file system's time stamps
  Cuts,         \* how many whole lines may survive a write that is cut short
  MaxTime, MaxInode, MaxEdits,                        \* bounds
  Nobody, Null, Torn

Pow2[k \in Nat] == IF k = 0 THEN 1 ELSE 2 * Pow2[k - 1]

\* gen_c_object names at least the C source with cache_file.
ASSUME CacheAssumption ==
  /\ Inputs \in Seq(Files) /\ Inputs # <<>>
  /\ \A c \in [1..Len(Inputs) -> Contents] : Imports(c) \in Seq(Files)
  /\ Granule \in Nat \ {0}
  /\ Cuts \subseteq Nat
  /\ MaxTime \in Nat \ {0} /\ MaxInode \in Nat \ {0} /\ MaxEdits \in Nat
  /\ Nobody \notin Procs /\ Null \notin Files \cup Contents

\* The resolutions that is_problematic_timestamp can tell from a time stamp.
PowerOfTwo == \E k \in 0..Granule : Granule = Pow2[k]

VARIABLES
  now,          \* the wall clock
  disk,         \* the files: content, mtime and inode
  manifest,     \* the lines of the manifest file
  lock,         \* who has the fcntl lock on it
  artifacts,    \* the output directory: digest -> contents compiled
  proc,         \* the CacheHash of each process, and where it is
  tainted,      \* history: digests of artifacts compiled while a file changed
  edits         \* how many times files have been changed

world == <<now, disk, edits>>
vars == <<world, manifest, lock, artifacts, proc, tainted>>

NumInputs == Len(Inputs)
Attrs == [mtime : 0..MaxTime, inode : 0..MaxInode]
Entries == [path : Files \cup {Null}, attr : Attrs, digest : Contents \cup {Null}]

\* A torn line is not an entry.
ASSUME TornAssumption == Torn \notin Entries

Places == {"idle", "check", "rehash", "fill", "fillhash", "build", "add",
           "addhash", "use", "write"}

\* Where a process has a file open to hash it.
Hashing == {"rehash", "fillhash", "addhash"}

\* The attributes that tell cache_hit to hash the file whatever its mtime.
ZeroAttr == [mtime |-> 0, inode |-> 0]

Unhashed(f) == [path |-> f, attr |-> ZeroAttr, digest |-> Null]

\* cache_init, and the state after exit.  fd is Null as long as the file that
\* is open still has its name, and what it holds once it has lost it.
cache_init ==
  [pc |-> "idle", lines |-> <<>>, i |-> 1, files |-> <<>>, hash |-> <<>>, fd |-> Null,
   changed |-> FALSE, dirty |-> FALSE, todo |-> <<>>, built |-> <<>>,
   disturbed |-> FALSE]

\* The time stamp the file system gives to a write.
Stamp == now - (now % Granule)

Stamps == {t \in 0..Stamp : t % Granule = 0}

Init ==
  /\ now = 1
  /\ \E c \in [Files -> Contents] :
       disk = [f \in Files |-> [content |-> c[f],
                                attr |-> [mtime |-> Stamp, inode |-> 1]]]
  /\ manifest = <<>>
  /\ lock = Nobody
  /\ artifacts = [d \in {} |-> <<>>]
  /\ proc = [p \in Procs |-> cache_init]
  /\ tainted = {}
  /\ edits = 0

Digests(es) == [k \in 1..Len(es) |-> es[k].digest]

\* The process ends, by exit or by a crash: the kernel drops its lock.
Exit(p) ==
  /\ proc' = [proc EXCEPT ![p] = cache_init]
  /\ lock' = Nobody

-----------------------------------------------------------------------------
(* Time stamps. *)

\* 1 << ctzll(t)
LowBit(t) == CHOOSE b \in {Pow2[k] : k \in 0..t} : t % b = 0 /\ t % (2 * b) # 0

\* Mutant: the clock is not rounded to the resolution of the time stamp.
ExactClock(t) == t = 0 \/ now = t

\* The clock, rounded as coarsely as the time stamp may have been, still
\* shows the time stamp: a later write could get the same one.
is_problematic_timestamp(t) == t = 0 \/ now - (now % LowBit(t)) = t

\* The attributes to save for a file that is about to be hashed.
Recorded(f) ==
  IF is_problematic_timestamp(disk[f].attr.mtime) THEN ZeroAttr ELSE disk[f].attr

-----------------------------------------------------------------------------
(* The file that is being hashed. *)

\* The entry it is for.
Current(q) == IF q.pc = "addhash" THEN Len(q.files) ELSE q.i

\* The digest of what the open descriptor shows.
hash_file(q) ==
  IF q.fd = Null THEN disk[q.files[Current(q)].path].content ELSE q.fd

-----------------------------------------------------------------------------
(* cache_hit *)

\* Mutant: the manifest is opened without the lock.
OpenUnlocked(p) ==
  /\ proc[p].pc = "idle"
  /\ lock' = p
  /\ proc' = [proc EXCEPT ![p] =
       [cache_init EXCEPT !.pc = "check", !.lines = manifest,
          !.files = [k \in 1..NumInputs |-> Unhashed(Inputs[k])]]]
  /\ UNCHANGED <<world, manifest, artifacts, tainted>>

\* Lines 297-311; F_SETLKW waits until the lock is free.
OpenManifest(p) ==
  /\ proc[p].pc = "idle" /\ lock = Nobody
  /\ lock' = p
  /\ proc' = [proc EXCEPT ![p] =
       [cache_init EXCEPT !.pc = "check", !.lines = manifest,
          !.files = [k \in 1..NumInputs |-> Unhashed(Inputs[k])]]]
  /\ UNCHANGED <<world, manifest, artifacts, tainted>>

HasLine(p) == proc[p].i <= Len(proc[p].lines)
PastInputs(p) == proc[p].i > NumInputs
Stops(p) == PastInputs(p) /\ proc[p].changed

\* files.at(i) or files.add_one(): lines 316-337.
Put(s, i, e) == IF i <= Len(s) THEN [s EXCEPT ![i] = e] ELSE Append(s, e)

\* The digest goes into the hash only as long as nothing has changed.
Update(hash, changed, d) == IF changed THEN hash ELSE Append(hash, d)

\* The time stamp and the inode match: the digest is trusted.
Trust(p) ==
  LET q == proc[p]  line == q.lines[q.i] IN
  /\ q.pc = "check" /\ HasLine(p) /\ ~Stops(p) /\ line # Torn
  /\ line.attr = disk[line.path].attr
  /\ proc' = [proc EXCEPT ![p] =
       [q EXCEPT !.files = Put(@, q.i, line),
                 !.hash = Update(@, q.changed, line.digest),
                 !.i = @ + 1]]
  /\ UNCHANGED <<world, manifest, lock, artifacts, tainted>>

\* They do not: the file, already open, will be hashed.
Distrust(p) ==
  LET q == proc[p]  line == q.lines[q.i] IN
  /\ q.pc = "check" /\ HasLine(p) /\ ~Stops(p) /\ line # Torn
  /\ line.attr # disk[line.path].attr
  /\ proc' = [proc EXCEPT ![p] =
       [q EXCEPT !.files = Put(@, q.i, [line EXCEPT !.attr = Recorded(line.path)]),
                 !.dirty = TRUE, !.fd = Null,
                 !.pc = "rehash"]]
  /\ UNCHANGED <<world, manifest, lock, artifacts, tainted>>

\* Mutant: a new time stamp counts as a change.
RehashAlwaysChanged(p) ==
  LET q == proc[p]  d == hash_file(q) IN
  /\ q.pc = "rehash"
  /\ proc' = [proc EXCEPT ![p] =
       [q EXCEPT !.files[q.i].digest = d, !.fd = Null, !.changed = TRUE,
                 !.i = @ + 1, !.pc = "check"]]
  /\ UNCHANGED <<world, manifest, lock, artifacts, tainted>>

Rehash(p) ==
  LET q == proc[p]
      d == hash_file(q)
      c == q.changed \/ d # q.files[q.i].digest IN
  /\ q.pc = "rehash"
  /\ proc' = [proc EXCEPT ![p] =
       [q EXCEPT !.files[q.i].digest = d, !.fd = Null, !.changed = c,
                 !.hash = Update(@, c, d), !.i = @ + 1, !.pc = "check"]]
  /\ UNCHANGED <<world, manifest, lock, artifacts, tainted>>

\* A line that cannot be parsed: ErrorInvalidFormat, which gen_c_object takes
\* for a miss.  Past the inputs an entry without a path has been added.  (A
\* line torn inside its path parses there, and names a file that cannot be
\* opened: Fail.)
InvalidFormat(p) ==
  LET q == proc[p] IN
  /\ q.pc = "check" /\ HasLine(p) /\ ~Stops(p) /\ q.lines[q.i] = Torn
  /\ proc' = [proc EXCEPT ![p] =
       [q EXCEPT !.files = IF PastInputs(p) THEN Append(@, Unhashed(Null)) ELSE @,
                 !.dirty = TRUE,
                 !.pc = "fill"]]
  /\ UNCHANGED <<world, manifest, lock, artifacts, tainted>>

\* The manifest is empty or ends before the inputs do (line 429).
Missing(p) ==
  /\ proc[p].pc = "check" /\ ~HasLine(p)
  /\ ~PastInputs(p) \/ proc[p].i = 1
  /\ proc' = [proc EXCEPT ![p] = [@ EXCEPT !.dirty = TRUE, !.pc = "fill"]]
  /\ UNCHANGED <<world, manifest, lock, artifacts, tainted>>

\* Mutant: the entries past the inputs are not dropped (line 325).
MissKeepsFiles(p) ==
  LET q == proc[p] IN
  /\ q.pc = "check" /\ Stops(p)
  /\ proc' = [proc EXCEPT ![p] =
       [q EXCEPT !.hash = Digests(SubSeq(q.files, 1, NumInputs)), !.pc = "build"]]
  /\ UNCHANGED <<world, manifest, lock, artifacts, tainted>>

\* A file has changed: back to the digests of the inputs (lines 318-331).
Miss(p) ==
  LET q == proc[p] IN
  /\ q.pc = "check" /\ Stops(p)
  /\ proc' = [proc EXCEPT ![p] =
       [q EXCEPT !.files = SubSeq(@, 1, NumInputs),
                 !.hash = Digests(SubSeq(q.files, 1, NumInputs)),
                 !.pc = "build"]]
  /\ UNCHANGED <<world, manifest, lock, artifacts, tainted>>

\* Lines 332 and 446.
Hit(p) ==
  /\ proc[p].pc = "check" /\ ~HasLine(p) /\ PastInputs(p) /\ ~Stops(p)
  /\ proc[p].i # 1
  /\ proc' = [proc EXCEPT ![p].pc = "use"]
  /\ UNCHANGED <<world, manifest, lock, artifacts, tainted>>

\* populate_file_hash for the inputs that are left, lines 432-439: open ...
FillOpen(p) ==
  LET q == proc[p] IN
  /\ q.pc = "fill"
  /\ IF PastInputs(p)
       THEN proc' = [proc EXCEPT ![p].pc = "build"]
       ELSE proc' = [proc EXCEPT ![p] =
              [q EXCEPT !.files[q.i].attr = Recorded(Inputs[q.i]), !.fd = Null,
                        !.pc = "fillhash"]]
  /\ UNCHANGED <<world, manifest, lock, artifacts, tainted>>

\* ... and hash.
FillHash(p) ==
  LET q == proc[p]  d == hash_file(q) IN
  /\ q.pc = "fillhash"
  /\ proc' = [proc EXCEPT ![p] =
       [q EXCEPT !.files[q.i].digest = d, !.fd = Null, !.hash = Append(@, d),
                 !.i = @ + 1, !.pc = "fill"]]
  /\ UNCHANGED <<world, manifest, lock, artifacts, tainted>>

-----------------------------------------------------------------------------
(* gen_c_object after a miss *)

Content(fs) == [k \in 1..Len(fs) |-> disk[fs[k]].content]

\* The C compiler reads the inputs and what they include, and writes a
\* temporary object and the .d file.
Compile(p) ==
  LET deps == Imports(Content(Inputs)) IN
  /\ proc[p].pc = "build"
  /\ proc' = [proc EXCEPT ![p] =
       [@ EXCEPT !.built = Content(Inputs \o deps), !.todo = deps, !.pc = "add"]]
  /\ UNCHANGED <<world, manifest, lock, artifacts, tainted>>

\* cache_add_file for each file the .d file names: open ...
AddOpen(p) ==
  LET q == proc[p] IN
  /\ q.pc = "add" /\ q.todo # <<>>
  /\ proc' = [proc EXCEPT ![p] =
       [q EXCEPT !.files = Append(@, [Unhashed(Head(q.todo))
                                        EXCEPT !.attr = Recorded(Head(q.todo))]),
                 !.fd = Null, !.pc = "addhash"]]
  /\ UNCHANGED <<world, manifest, lock, artifacts, tainted>>

\* ... and hash.
AddHash(p) ==
  LET q == proc[p]  d == hash_file(q) IN
  /\ q.pc = "addhash"
  /\ proc' = [proc EXCEPT ![p] =
       [q EXCEPT !.files[Len(q.files)].digest = d, !.fd = Null, !.hash = Append(@, d),
                 !.todo = Tail(@), !.pc = "add"]]
  /\ UNCHANGED <<world, manifest, lock, artifacts, tainted>>

\* The output directory with an object renamed into the directory of digest.
Renamed(digest, object) ==
  [d \in DOMAIN artifacts \cup {digest} |-> IF d = digest THEN object ELSE artifacts[d]]

\* Mutant: the manifest is written before the artifact is there.
FinalReleasesFirst(p) ==
  LET q == proc[p] IN
  /\ q.pc = "add" /\ q.todo = <<>>
  /\ \/ /\ manifest # q.files
        /\ manifest' = q.files
        /\ UNCHANGED <<artifacts, proc, tainted>>
     \/ /\ manifest = q.files
        /\ artifacts' = Renamed(q.hash, q.built)
        /\ tainted' = IF q.disturbed THEN tainted \cup {q.hash} ELSE tainted \ {q.hash}
        /\ proc' = [proc EXCEPT ![p].pc = "use"]
        /\ UNCHANGED manifest
  /\ UNCHANGED <<world, lock>>

\* cache_final, and the object is renamed into the directory of its digest.
Final(p) ==
  LET q == proc[p] IN
  /\ q.pc = "add" /\ q.todo = <<>>
  /\ artifacts' = Renamed(q.hash, q.built)
  /\ tainted' = IF q.disturbed THEN tainted \cup {q.hash} ELSE tainted \ {q.hash}
  /\ proc' = [proc EXCEPT ![p].pc = "use"]
  /\ UNCHANGED <<world, manifest, lock>>

-----------------------------------------------------------------------------
(* cache_release *)

\* Lines 584-591, up to the truncation in os_file_overwrite.  An entry
\* without a path is a null pointer for buf_ptr (line 553).
cache_release(p) ==
  LET q == proc[p] IN
  /\ q.pc = "use"
  /\ \/ /\ ~q.dirty \/ \E k \in 1..Len(q.files) : q.files[k].path = Null
        /\ Exit(p)
        /\ UNCHANGED manifest
     \/ /\ q.dirty /\ \A k \in 1..Len(q.files) : q.files[k].path # Null
        /\ manifest' = <<>>
        /\ proc' = [proc EXCEPT ![p].pc = "write"]
        /\ UNCHANGED lock
  /\ UNCHANGED <<world, artifacts, tainted>>

\* What one write() leaves in the file: all lines, or as many as Cuts allows
\* and perhaps a piece of the next (a short count is not noticed).
Written(es) ==
  {es} \cup {SubSeq(es, 1, k) : k \in {c \in Cuts : c < Len(es)}}
       \cup {Append(SubSeq(es, 1, k), Torn) : k \in {c \in Cuts : c < Len(es)}}

WriteManifest(p) ==
  /\ proc[p].pc = "write"
  /\ manifest' \in Written(proc[p].files)
  /\ Exit(p)
  /\ UNCHANGED <<world, artifacts, tainted>>

-----------------------------------------------------------------------------
(* Failures *)

\* A file cannot be opened or read, or the compiler fails: the manifest is
\* closed and the process exits.
Fail(p) ==
  /\ proc[p].pc \in {"check", "fill", "build", "add"} \cup Hashing
  /\ Exit(p)
  /\ UNCHANGED <<world, manifest, artifacts, tainted>>

\* The process is killed, anywhere.
Crash(p) ==
  /\ proc[p].pc # "idle"
  /\ Exit(p)
  /\ UNCHANGED <<world, manifest, artifacts, tainted>>

-----------------------------------------------------------------------------
(* The world outside *)

\* p has hashed f and the compiler has yet to read it, or the other way round.
Relies(p, f) ==
  LET q == proc[p] IN
  \/ \E k \in 1..NumInputs :
       /\ Inputs[k] = f
       /\ \/ q.pc = "build"
          \/ q.pc \in {"check", "rehash", "fill", "fillhash"} /\ k < q.i
  \/ /\ q.pc \in {"add", "addhash"}
     /\ \E k \in 1..Len(q.todo) : q.todo[k] = f

\* p has f open to hash it.
HasOpen(p, f) ==
  proc[p].pc \in Hashing /\ proc[p].files[Current(proc[p])].path = f

\* A file is written in place.
Edit(f, c) ==
  /\ edits < MaxEdits /\ edits' = edits + 1
  /\ disk' = [disk EXCEPT ![f].content = c, ![f].attr.mtime = Stamp]
  /\ proc' = [p \in Procs |-> [proc[p] EXCEPT !.disturbed = @ \/ Relies(p, f)]]
  /\ UNCHANGED <<now, manifest, lock, artifacts, tainted>>

\* Another file, written at some time in the past, is renamed over it: who has
\* the old one open hashes that, and the compiler will read the new one.
Replace(f, c, t) ==
  /\ edits < MaxEdits /\ edits' = edits + 1
  /\ disk[f].attr.inode < MaxInode
  /\ disk' = [disk EXCEPT ![f].content = c, ![f].attr.mtime = t,
                          ![f].attr.inode = @ + 1]
  /\ proc' = [p \in Procs |->
       [proc[p] EXCEPT
          !.disturbed = @ \/ Relies(p, f) \/ (HasOpen(p, f) /\ ~PastInputs(p)),
          !.fd = IF HasOpen(p, f) /\ @ = Null THEN disk[f].content ELSE @]]
  /\ UNCHANGED <<now, manifest, lock, artifacts, tainted>>

Tick ==
  /\ now < MaxTime
  /\ now' = now + 1
  /\ UNCHANGED <<disk, edits, manifest, lock, artifacts, proc, tainted>>

cache_hit(p) ==
  \/ OpenManifest(p) \/ Trust(p) \/ Distrust(p) \/ Rehash(p)
  \/ InvalidFormat(p) \/ Missing(p) \/ Miss(p) \/ Hit(p)
  \/ FillOpen(p) \/ FillHash(p)

gen_c_object(p) == Compile(p) \/ AddOpen(p) \/ AddHash(p) \/ Final(p)

Next ==
  \/ \E p \in Procs :
       \/ cache_hit(p) \/ gen_c_object(p)
       \/ cache_release(p) \/ WriteManifest(p)
       \/ Fail(p) \/ Crash(p)
  \/ \E f \in Files, c \in Contents : Edit(f, c)
  \/ \E f \in Files, c \in Contents, t \in Stamps : Replace(f, c, t)
  \/ Tick

Spec == Init /\ [][Next]_vars

-----------------------------------------------------------------------------
\* Type invariant of the cache.
TypeOK ==
  /\ now \in 1..MaxTime
  /\ disk \in [Files -> [content : Contents, attr : Attrs]]
  /\ manifest \in Seq(Entries \cup {Torn})
  /\ lock \in Procs \cup {Nobody}
  /\ \A d \in DOMAIN artifacts : d \in Seq(Contents) /\ artifacts[d] \in Seq(Contents)
  /\ \A p \in Procs :
       /\ proc[p].pc \in Places
       /\ proc[p].lines \in Seq(Entries \cup {Torn})
       /\ proc[p].i \in Nat
       /\ proc[p].files \in Seq(Entries)
       /\ proc[p].hash \in Seq(Contents)
       /\ proc[p].fd \in Contents \cup {Null}
       /\ proc[p].todo \in Seq(Files) /\ proc[p].built \in Seq(Contents)
       /\ {proc[p].changed, proc[p].dirty, proc[p].disturbed} \subseteq BOOLEAN
  /\ tainted \subseteq Seq(Contents)
  /\ edits \in 0..MaxEdits

\* "Until this function is called, no one will be able to get a lock on your
\* input params" (cache_hash.hpp:77): one process at a time works with the
\* manifest and its artifact.
OneAtATime ==
  /\ TypeOK
  /\ \A p \in Procs : proc[p].pc # "idle" <=> lock = p

\* "If the mtime matches we can trust the digest" (cache_hash.cpp:387): in
\* every state, a line whose time stamp and inode are those of the file holds
\* the digest of what the file holds now.
Truthful(e) ==
  e.path # Null /\ e.digest # Null /\ e.attr = disk[e.path].attr
    => e.digest = disk[e.path].content

ManifestTruthful ==
  \A k \in 1..Len(manifest) : manifest[k] # Torn => Truthful(manifest[k])

\* The digest cache_final returns is that of the files the manifest will
\* list, so it is "the same thing that cache_hit returns if you got a cache
\* hit" (cache_hash.hpp:74).
HashMatchesFiles ==
  \A p \in Procs :
    proc[p].pc \in {"use", "write"} => proc[p].hash = Digests(proc[p].files)

\* The artifact of a hit exists, although the process that made it may have
\* been killed at any point ("until cache_release is called we still might be
\* working on creating the artifacts", cache_hash.cpp:567).  It was compiled
\* from the very contents that the files had when they were checked, and the
\* check covered every file it was compiled from.  Only a build is exempt one
\* of whose files was changed between its compilation and its hashing, in
\* either order; when another file takes its name, the opening counts.
HitIsRight ==
  \A p \in Procs :
    LET d == proc[p].hash
        ins == SubSeq(d, 1, NumInputs) IN
    proc[p].pc = "use" /\ d \notin tainted =>
      /\ d \in DOMAIN artifacts /\ artifacts[d] = d
      /\ Len(d) = NumInputs + Len(Imports(ins))

\* A build is repeated only when a file has another content than the manifest
\* says, or the manifest was cut short: new time stamps alone cause no miss.
NoSpuriousMiss ==
  [][\A p \in Procs :
       proc[p].pc = "check" /\ proc'[p].pc = "build" =>
         \E k \in 1..Len(proc[p].files) :
           proc[p].files[k].digest # proc[p].lines[k].digest]_vars
=============================================================================

---------------------------- MODULE FileSystem ----------------------------
(***************************************************************************)
(* The fs object (src/NekoScript/JSFileSystem.cpp) and the two helpers that   *)
(* AppMain reads the script with, over one directory that other processes    *)
(* change at any time.                                                      *)
(*                                                                          *)
(* An operation is cut wherever the code goes back to the system: between    *)
(* FileExists and the open, between the size and the bytes, between the      *)
(* truncation and the write, between two entries of a listing.  Where it      *)
(* allocates, for the bytes and for the entries, the engine may collect        *)
(* garbage and call finalizers of the script, which use files themselves.       *)
(***************************************************************************)
EXTENDS Integers, SequencesExt, FiniteSets

CONSTANTS
    Names,         \* names of the directory, as scripts write them
    Hidden,        \* those that begin with a dot
    Ansi,          \* the name that the bytes of a UTF-8 name are in the ANSI page
    Texts,         \* what scripts and other processes write
    Room,          \* bytes a write can still store when the disk is full
    Disturbances,  \* bound: changes made by other processes
    Absent, Directory, None

VARIABLES
    disk,       \* what a name stands for: a sequence of bytes if it is a file
    op,         \* the operation under way
    outer,      \* the operation that waits for finalizers called inside it
    saved,      \* history: what the script stored under a name, if all of it
                \* was stored and no other process has changed the name since
    disturbed   \* changes made by other processes

\* Names that read the same in UTF-8 and in the ANSI page.
Plain == {n \in Names : Ansi[n] = n}

Idle == [kind |-> "none", pc |-> "idle"]

\* Directories are made by other processes.
FsInit ==
    /\ disk \in [Names -> Texts \cup {Absent}]
    /\ op = Idle /\ outer = Idle
    /\ saved = [n \in Plain |-> None]
    /\ disturbed = 0

---------------------------------------------------------------------------
(* What the streams deliver *)

FileExists(n) == disk[n] \notin {Absent, Directory}

UpTo(bytes, stop) ==
    LET i == SelectInSeq(bytes, LAMBDA b : b = stop)
    IN IF i = 0 THEN bytes ELSE SubSeq(bytes, 1, i - 1)

\* The bytes at some of the places of a sequence, in their order.
Kept(bytes, places) ==
    LET first[i \in 0..Len(bytes)] ==
          IF i = 0 THEN <<>>
          ELSE IF i \in places THEN Append(first[i - 1], bytes[i]) ELSE first[i - 1]
    IN first[Len(bytes)]

\* A stream opened without std::ios::binary ends at a SUB and turns CR LF into LF.
TextMode(bytes) ==
    LET text == UpTo(bytes, "sub")
    IN Kept(text, {i \in DOMAIN text :
                      ~(text[i] = "cr" /\ i < Len(text) /\ text[i + 1] = "lf")})

Padded(bytes, size, pad) ==
    [i \in 1..size |-> IF i <= Len(bytes) THEN bytes[i] ELSE pad]

\* Mutant of Delivered: the buffer is not zeroed.
DeliveredUninitialized(kind, bytes, size) ==
    IF kind = "read" THEN Padded(bytes, size, "garbage")
    ELSE UpTo(Padded(TextMode(bytes), size, "sp"), "nul")

\* Mutant of Delivered: the position is not set back to 0 before the read.
DeliveredAtEnd(kind, bytes, size) ==
    IF kind = "read" THEN Padded(<<>>, size, "nul") ELSE Padded(<<>>, size, "sp")

\* readFileSync fills a zeroed buffer; ReadWholeFileAsString a string of blanks,
\* of which the compiler sees what comes before a NUL.
Delivered(kind, bytes, size) ==
    IF kind = "read" THEN Padded(bytes, size, "nul")
    ELSE UpTo(Padded(TextMode(bytes), size, "sp"), "nul")

\* Writing from the beginning of what is there.
Overlaid(old, new) == new \o SubSeq(old, Len(new) + 1, Len(old))

---------------------------------------------------------------------------
(* readFileSync ("read") and ReadWholeFileAsString ("source") *)

Opening(kind, n) == [kind |-> kind, name |-> n, pc |-> "open"]
Missing(n) == [kind |-> "read", name |-> n, pc |-> "missing"]
Thrown(kind, n) == [kind |-> kind, name |-> n, pc |-> "thrown"]
Returned(kind, n, value) ==
    [kind |-> kind, name |-> n, pc |-> "returned", value |-> value]

StartRead(n) ==
    /\ op = Idle
    /\ op' = IF FileExists(n) THEN Opening("read", n) ELSE Missing(n)
    /\ UNCHANGED <<disk, outer, saved, disturbed>>

StartSource(n) ==
    /\ op = Idle
    /\ op' = Opening("source", n)
    /\ UNCHANGED <<disk, outer, saved, disturbed>>

\* The open and tellg.  If the stream does not open, because the file is gone or
\* the system refuses it, tellg is -1, and the buffer or string of that size is
\* refused with an exception.
OpenFile ==
    /\ op.pc = "open"
    /\ \/ /\ FileExists(op.name)
          /\ op' = [kind |-> op.kind, name |-> op.name, pc |-> "read",
                    size |-> Len(disk[op.name]), alone |-> TRUE]
       \/ op' = Thrown(op.kind, op.name)
    /\ UNCHANGED <<disk, outer, saved, disturbed>>

\* The bytes of now, as many as the size of then, and the stream closed by its destructor.
ReadBytes ==
    /\ op.pc = "read"
    /\ op' = [kind |-> op.kind, name |-> op.name, pc |-> "returned",
              value |-> Delivered(op.kind, disk[op.name], op.size), alone |-> op.alone]
    /\ UNCHANGED <<disk, outer, saved, disturbed>>

---------------------------------------------------------------------------
(* Changes, and the operations they come in between *)

Forget(n) == [saved EXCEPT ![n] = None]

\* A stream of this process has the file open: it can be written to by others, but
\* neither deleted nor renamed.
InUse(n) == \E o \in {op, outer} : o.pc \in {"read", "write"} /\ o.name = n

\* What is left of an operation under way when a name is changed or goes: a read or
\* a write is no longer alone with its file; stay and ever belong to readdirSync.
Meanwhile(o, n, gone) ==
    IF o.pc \in {"read", "write"} /\ o.name = n THEN [o EXCEPT !.alone = FALSE]
    ELSE IF o.pc # "list" THEN o
    ELSE IF gone THEN [o EXCEPT !.stay = @ \ {n}]
    ELSE [o EXCEPT !.ever = @ \cup {n}]

---------------------------------------------------------------------------
(* writeFileSync, unlinkSync, renameSync *)

\* Mutant of StartWrite: the stream is opened without truncating the file.
StartWriteInPlace(n, text) ==
    /\ op = Idle
    /\ disk[n] # Directory
    /\ disk' = [disk EXCEPT ![n] = IF FileExists(n) THEN @ ELSE <<>>]
    /\ op' = [kind |-> "write", name |-> n, pc |-> "write", text |-> text, alone |-> TRUE]
    /\ outer' = Meanwhile(outer, n, FALSE)
    /\ saved' = IF n \in Plain THEN Forget(n) ELSE saved
    /\ UNCHANGED disturbed

\* std::ofstream truncates the file when it opens it.
StartWrite(n, text) ==
    /\ op = Idle
    /\ \/ /\ disk[n] # Directory
          /\ disk' = [disk EXCEPT ![n] = <<>>]
          /\ op' = [kind |-> "write", name |-> n, pc |-> "write", text |-> text, alone |-> TRUE]
          /\ outer' = Meanwhile(outer, n, FALSE)
          /\ saved' = IF n \in Plain THEN Forget(n) ELSE saved
       \/ /\ op' = Thrown("write", n)
          /\ UNCHANGED <<disk, outer, saved>>
    /\ UNCHANGED disturbed

\* write, flush and close, whose results nobody looks at: when the disk is full
\* the call returns like any other.
WriteBytes ==
    LET n == op.name
    IN /\ op.pc = "write"
       /\ \E k \in {Len(op.text)} \cup (0..Room) :
             /\ k <= Len(op.text)
             /\ disk' = [disk EXCEPT ![n] = Overlaid(@, SubSeq(op.text, 1, k))]
             /\ saved' = IF n \in Plain /\ op.alone /\ k = Len(op.text)
                         THEN [saved EXCEPT ![n] = op.text] ELSE saved
       /\ op' = Returned("write", n, None)
       /\ outer' = Meanwhile(outer, n, FALSE)
       /\ UNCHANGED disturbed

\* DeleteFileA, which the system may refuse.
UnlinkSync(n) ==
    /\ op = Idle
    /\ \/ /\ FileExists(Ansi[n]) /\ ~InUse(Ansi[n])
          /\ disk' = [disk EXCEPT ![Ansi[n]] = Absent]
          /\ saved' = IF n \in Plain THEN Forget(n) ELSE saved
          /\ op' = Returned("unlink", n, None)
          /\ outer' = Meanwhile(outer, Ansi[n], TRUE)
       \/ /\ op' = Thrown("unlink", n)
          /\ UNCHANGED <<disk, outer, saved>>
    /\ UNCHANGED disturbed

\* MoveFileA, which replaces nothing.
RenameSync(old, new) ==
    /\ op = Idle /\ old # new
    /\ \/ /\ disk[Ansi[old]] # Absent /\ disk[Ansi[new]] = Absent /\ ~InUse(Ansi[old])
          /\ disk' = [disk EXCEPT ![Ansi[old]] = Absent, ![Ansi[new]] = disk[Ansi[old]]]
          /\ saved' = [n \in Plain |->
                         IF n = old THEN None
                         ELSE IF n = new THEN (IF old \in Plain THEN saved[old] ELSE None)
                         ELSE saved[n]]
          /\ op' = Returned("rename", old, None)
          /\ outer' = Meanwhile(Meanwhile(outer, Ansi[old], TRUE), Ansi[new], FALSE)
       \/ /\ op' = Thrown("rename", old)
          /\ UNCHANGED <<disk, outer, saved>>
    /\ UNCHANGED disturbed

---------------------------------------------------------------------------
(* readdirSync: stay are the names that were there all the time, ever those     *)
(* that were there at some time; the system delivers every one of the first     *)
(* once and any of the others at most once.                                    *)

Present == {n \in Names : disk[n] # Absent}

StartList ==
    /\ op = Idle
    /\ op' \in {Thrown("list", None),
                [kind |-> "list", name |-> None, pc |-> "list", value |-> <<>>,
                 seen |-> {}, stay |-> Present, ever |-> Present]}
    /\ UNCHANGED <<disk, outer, saved, disturbed>>

\* Mutant of FindFile: the loop asks for the next entry before it takes the first.
FindFileAfter(n) ==
    /\ op.pc = "list" /\ n \in op.ever \ op.seen
    /\ op' = [op EXCEPT !.seen = @ \cup {n},
                        !.value = IF n \in Hidden \/ op.seen = {} THEN @ ELSE Append(@, n)]
    /\ UNCHANGED <<disk, outer, saved, disturbed>>

FindFile(n) ==
    /\ op.pc = "list" /\ n \in op.ever \ op.seen
    /\ op' = [op EXCEPT !.seen = @ \cup {n},
                        !.value = IF n \in Hidden THEN @ ELSE Append(@, n)]
    /\ UNCHANGED <<disk, outer, saved, disturbed>>

\* No more files, or any other error, which is thrown.
ListEnds ==
    /\ op.pc = "list"
    /\ \/ op.stay \subseteq op.seen /\ op' = [op EXCEPT !.pc = "returned"]
       \/ op' = Thrown("list", None)
    /\ UNCHANGED <<disk, outer, saved, disturbed>>

---------------------------------------------------------------------------
(* Who acts *)

\* The script calls a function of fs; existsSync changes nothing.
FsCall ==
    \/ \E n \in Names : StartRead(n) \/ UnlinkSync(n)
    \/ \E n \in Names, text \in Texts : StartWrite(n, text)
    \/ \E old, new \in Names : RenameSync(old, new)
    \/ StartList

FsStep == OpenFile \/ ReadBytes \/ WriteBytes \/ ListEnds \/ (\E n \in Names : FindFile(n))

\* The call is over; its caller goes on.
Taken == op' = Idle

\* duk_push_fixed_buffer, between the size and the bytes, or the string or the array
\* of an entry: the engine collects garbage, and calls finalizers of the script.  It
\* does not collect again until they are done.
Interrupted ==
    /\ outer = Idle
    /\ \/ op.pc = "read" /\ op.kind = "read"
       \/ op.pc = "list"
    /\ outer' = op /\ op' = Idle
    /\ UNCHANGED <<disk, saved, disturbed>>

\* They are done, and the operation goes on.
Resumed ==
    /\ op = Idle
    /\ op' = outer /\ outer' = Idle
    /\ UNCHANGED <<disk, saved, disturbed>>

\* Another process writes, creates or removes a name.
Disturb(n, what) ==
    /\ disturbed < Disturbances /\ disturbed' = disturbed + 1
    /\ disk[n] # what
    /\ InUse(n) => what \in Texts
    /\ disk' = [disk EXCEPT ![n] = what]
    /\ saved' = IF n \in Plain THEN Forget(n) ELSE saved
    /\ op' = Meanwhile(op, n, what = Absent)
    /\ outer' = Meanwhile(outer, n, what = Absent)

OthersAct == \E n \in Names, what \in Texts \cup {Absent, Directory} : Disturb(n, what)
---------------------------------------------------------------------------
(* Properties *)

\* What a script stored with writeFileSync under a name that is the same in both
\* encodings, and that no other process has changed, readFileSync never reports
\* missing, and returns unless the system refuses to open it: not mixed with what was
\* there before, whatever was deleted, renamed or written in between.  Only a
\* finalizer that changes the file between the size and the bytes can have it
\* return the new text cut or padded to the old size.
ReadsWhatWasWritten ==
    op.kind = "read" /\ op.name \in Plain /\ saved[op.name] # None =>
        /\ op.pc # "missing"
        /\ op.pc = "returned" =>
              \/ op.value = saved[op.name]
              \/ ~op.alone /\ op.value = Padded(saved[op.name], Len(op.value), "nul")

\* A listing that returns has every visible name that was there all the time,
\* exactly once, and no name that was never there.
ListingComplete ==
    op.kind = "list" /\ op.pc = "returned" =>
        /\ op.stay \ Hidden \subseteq ToSet(op.value)
        /\ ToSet(op.value) \subseteq op.ever \ Hidden
        /\ IsInjective(op.value)
===========================================================================

------------------------------- MODULE Cache --------------------------------
(***************************************************************************)
(* The bytecode file kept beside a source (compiler/bytecode/io.c) and the *)
(* processes that use it: "saffire exec" and the workers of "saffire       *)
(* fastcgi", which run the file if its time stamp is the source's and      *)
(* write it otherwise, and "saffire bytecode compile, sign, unsign".  None *)
(* of them locks the file, any of them may die at any time, a write may    *)
(* fail, and the source may be edited at any time.                         *)
(*                                                                         *)
(* A file is a sequence: the header, then the parts of the compressed      *)
(* bytecode, then a signature.  stdio writes when its buffer is full, at a *)
(* seek and at fclose: the header goes out with the first part, and a part *)
(* is what goes out at once.  The file is never removed.  Of the bytecode  *)
(* of a version of the source only its lengths count here.                 *)
(***************************************************************************)
EXTENDS Integers, SequencesExt

CONSTANTS
    Procs,
    Parts,      \* the length of every version's compressed bytecode, in parts
    Sizes,      \* the length of every version's bytecode
    Limits      \* how many commands there are, and events: edits, crashes, failed writes

Versions == DOMAIN Parts

ASSUME CacheAssumption ==
    /\ Parts \in [Versions -> Nat \ {0}]
    /\ Sizes \in [Versions -> Nat]
    /\ 1 \in Versions
    /\ Limits \in [{"commands", "events"} -> Nat]

VARIABLES
    source,     \* version and st_mtime
    exists,     \* whether the bytecode file was ever created
    file,       \* what is in it
    proc,       \* the processes
    counts,     \* how many of each of Limits there were
    careless,   \* an edit did not change st_mtime, or was made during a compilation
    disturbed   \* what is in the file was written by two at a time, or not to its end

vars == <<source, exists, file, proc, counts, careless, disturbed>>

Hole == [hole |-> TRUE]
None == "none"

\* bzip2: a stream that is read to its end has a checksum, so that nothing but a
\* whole one decompresses; what follows it is not read.
Part(v, i) == [of |-> v, part |-> i]
Stream(v) == [i \in 1 .. Parts[v] |-> Part(v, i)]
bzip2_decompress(parts) == {v \in Versions : IsPrefix(Stream(v), parts)}

Signature(parts) == [signed |-> parts]

\* What a literal of one character has behind it, and what a stack has on it: no
\* magic number, no time stamp and no lengths that mean anything.
Garbage == [magic |-> FALSE, timestamp |-> 0, len |-> 0, uncompressed |-> 0,
            signed |-> FALSE, signature |-> 0, signature_len |-> 0]

\* What is beyond the end reads as zeroes, and anything read as a header that is
\* none has no magic number.
At(f, i) == IF i \in DOMAIN f THEN f[i] ELSE Hole
HeaderOf(f) == IF DOMAIN f[1] = DOMAIN Garbage THEN f[1] ELSE Garbage
Cut(f, n) == [i \in 1 .. n |-> At(f, i)]
WriteAt(f, pos, x) == [Cut(f, IF pos > Len(f) THEN pos ELSE Len(f)) EXCEPT ![pos] = x]

Header(v, mtime) ==
    [magic |-> TRUE, timestamp |-> mtime, len |-> Parts[v], uncompressed |-> Sizes[v],
     signed |-> FALSE, signature |-> 0, signature_len |-> 0]
\* A signature has length 1, or 0 when gpg gave none.
Whole(v, mtime, signed, n) ==
    LET h == Header(v, mtime)
    IN IF signed
       THEN <<[h EXCEPT !.signed = TRUE, !.signature = h.len + 1, !.signature_len = n]>>
              \o Stream(v) \o [i \in 1 .. n |-> Signature(Stream(v))]
       ELSE <<h>> \o Stream(v)

-----------------------------------------------------------------------------
\* A process: what it does next (pc), the command, the header it read or writes,
\* the parts it has read, the version whose bytecode it has, st_mtime as it saw
\* it, the versions the source had since it began.  An option of a command is
\* chosen where it is looked at.
Idle == [pc |-> "idle", cmd |-> None, header |-> Garbage, parts |-> <<>>,
         version |-> 0, mtime |-> 0, since |-> {}]

Init ==
    /\ source = [version |-> 1, mtime |-> 1]
    /\ \/ exists = FALSE /\ file = <<>>
       \/ /\ exists = TRUE
          /\ \E signed \in BOOLEAN, n \in {0, 1} :
                file = Whole(source.version, source.mtime, signed, n)
    /\ proc = [p \in Procs |-> Idle]
    /\ counts = [kind \in DOMAIN Limits |-> 0]
    /\ careless = FALSE /\ disturbed = FALSE

Compiling(p) == proc[p].pc \in {"stamp", "trunc", "write", "finish"}
\* From where the file is emptied, or found signed or not, to the last write.
Torn(p) == proc[p].pc \in {"write", "finish", "sign_tail", "unsign_head"}
Writing(p) == Torn(p) \/ proc[p].pc \in {"open", "sign_read", "unsign_cut"}
Alone(p) == \A q \in Procs \ {p} : ~Writing(q)

World == <<source, counts, careless>>
OneMore(kind) == counts[kind] < Limits[kind] /\ counts' = [counts EXCEPT ![kind] = @ + 1]
Step(p, next) == proc' = [proc EXCEPT ![p] = next]
\* The end of a process, and of a request of a worker, that runs nothing.
End(p) == Step(p, Idle)
Only(p, next) == Step(p, next) /\ UNCHANGED <<World, exists, file, disturbed>>
GiveUp(p) == End(p) /\ UNCHANGED <<World, exists, file, disturbed>>
\* What is written, or is not: that a write fails, the disk being full, is not looked at.
Write(f) ==
    /\ UNCHANGED <<source, careless, exists>>
    /\ \/ file' = f /\ UNCHANGED <<counts, disturbed>>
       \/ OneMore("events") /\ disturbed' = TRUE /\ UNCHANGED file
Command(p, next) ==
    /\ proc[p].pc = "idle" /\ OneMore("commands")
    /\ Step(p, next)
    /\ UNCHANGED <<source, careless, exists, file, disturbed>>

\* fread of a header whose result is not looked at: of an empty file the header
\* stays what the stack has there, which may be the one read before.
Headers(p) == IF Len(file) > 0 THEN {HeaderOf(file)} ELSE {Garbage, proc[p].header}

-----------------------------------------------------------------------------
\* do_exec, fcgi_loop: st_mtime, then whether the bytecode has it as time stamp.
\* What an unread header has as time stamp may be it too.
Exec(p) ==
    Command(p, [proc[p] EXCEPT !.pc = "look", !.cmd = "exec",
                               !.mtime = source.mtime, !.since = {source.version}])

Look(p) ==
    /\ proc[p].pc = "look"
    /\ LET found(h) == Only(p, [proc[p] EXCEPT !.pc = "valid", !.header = h, !.mtime = 0])
           stale == Only(p, [proc[p] EXCEPT !.pc = "generate", !.mtime = 0])
       IN \/ ~exists /\ stale
          \/ exists /\ \E h \in Headers(p) :
               \/ h.timestamp = proc[p].mtime /\ found(h)
               \/ h.timestamp # proc[p].mtime /\ stale
          \/ exists /\ file = <<>> /\ found(proc[p].header)

\* bytecode_load: bytecode_is_valid_file, then the file is opened again.
LoadValid(p) ==
    /\ proc[p].pc = "valid"
    /\ \E h \in Headers(p) :
         \/ h.magic /\ Only(p, [proc[p] EXCEPT !.pc = "load", !.header = h])
         \/ ~h.magic /\ GiveUp(p)

LoadHeader(p) ==
    /\ proc[p].pc = "load"
    /\ \/ Len(file) = 0 /\ GiveUp(p)
       \/ Len(file) > 0 /\ Only(p, [proc[p] EXCEPT !.pc = "read", !.header = HeaderOf(file),
                                                !.parts = <<>>])

\* Mutant: one part too many.
ReadPartPast(p) ==
    /\ proc[p].pc \in {"read", "sign_read"}
    /\ Len(proc[p].parts) <= proc[p].header.len
    /\ Only(p, [proc[p] EXCEPT !.parts = Append(proc[p].parts, At(file, Len(proc[p].parts) + 2))])

\* One part; what is not there is not read, and the buffer has what it had.
ReadPart(p) ==
    /\ proc[p].pc \in {"read", "sign_read"}
    /\ Len(proc[p].parts) < proc[p].header.len
    /\ Only(p, [proc[p] EXCEPT !.parts = Append(proc[p].parts, At(file, Len(proc[p].parts) + 2))])

\* Mutant: what bzip2 says is not looked at, nor the length.
LoadUnchecked(p, verify) ==
    LET whole == bzip2_decompress(proc[p].parts)
    IN /\ proc[p].pc = "read" /\ Len(proc[p].parts) = proc[p].header.len
       /\ Only(p, [proc[p] EXCEPT !.pc = "run",
                                  !.version = IF whole = {} THEN 0 ELSE CHOOSE v \in whole : TRUE])

\* The signature if it is to be verified, the checksum and the length, and then
\* the bytecode.
Load(p, verify) ==
    LET h == proc[p].header
        parts == proc[p].parts
        invalid == /\ verify /\ h.signed /\ h.signature # 0
                   /\ h.signature_len = 0 \/ At(file, h.signature + 1) # Signature(parts)
    IN /\ proc[p].pc = "read" /\ Len(parts) = h.len
       /\ IF invalid THEN GiveUp(p)
          ELSE \/ \E v \in bzip2_decompress(parts) :
                    /\ Sizes[v] = h.uncompressed
                    /\ Only(p, [proc[p] EXCEPT !.pc = "run", !.version = v])
               \/ /\ \A v \in bzip2_decompress(parts) : Sizes[v] # h.uncompressed
                  /\ GiveUp(p)

Run(p) == proc[p].pc = "run" /\ GiveUp(p)

-----------------------------------------------------------------------------
\* The source is read and assembled: bytecode_generate_diskfile, or the same in
\* _compile_file and in fcgi_loop.
Generate(p, write) ==
    /\ proc[p].pc = "generate"
    /\ Only(p, [proc[p] EXCEPT !.pc = IF write THEN "stamp" ELSE "run", !.version = source.version])

Compile(p) ==
    Command(p, [proc[p] EXCEPT !.pc = "stamp", !.cmd = "compile", !.version = source.version])

\* Mutant: the time stamp is when the file is written, after the source's.
SaveStampEarly(p) ==
    /\ proc[p].pc = "stamp"
    /\ Only(p, [proc[p] EXCEPT !.pc = "trunc", !.header = Header(proc[p].version, source.mtime + 1)])

\* bytecode_save: the header, with st_mtime as it is now.
SaveStamp(p) ==
    /\ proc[p].pc = "stamp"
    /\ Only(p, [proc[p] EXCEPT !.pc = "trunc", !.header = Header(proc[p].version, source.mtime)])

\* What is next: to run it, or if it is to be signed, that.
Saved(p) ==
    LET after(pc) == [proc[p] EXCEPT !.pc = pc, !.parts = <<>>, !.header = Garbage]
    IN IF proc[p].cmd = "exec" THEN {after("run")} ELSE {after("signed"), Idle}

\* fopen empties the file, or fails.
SaveOpen(p) ==
    /\ proc[p].pc = "trunc"
    /\ \/ /\ Step(p, [proc[p] EXCEPT !.pc = "write", !.parts = <<>>])
          /\ exists' = TRUE /\ file' = <<>> /\ disturbed' = ~Alone(p)
          /\ UNCHANGED World
       \/ /\ OneMore("events")
          /\ \E next \in Saved(p) : proc' = [proc EXCEPT ![p] = next]
          /\ UNCHANGED <<source, careless, exists, file, disturbed>>

\* The next part; the first one with the bytes that keep the header's place.
SavePart(p) ==
    /\ proc[p].pc = "write"
    /\ LET n == Len(proc[p].parts) + 1
           x == Part(proc[p].version, n)
           written == WriteAt(IF n = 1 THEN WriteAt(file, 1, Garbage) ELSE file, n + 1, x)
           pc == IF n = proc[p].header.len THEN "finish" ELSE "write"
       IN /\ Step(p, [proc[p] EXCEPT !.pc = pc, !.parts = Append(proc[p].parts, x)])
          /\ Write(written)

SaveHeader(p) ==
    /\ proc[p].pc = "finish"
    /\ \E next \in Saved(p) : proc' = [proc EXCEPT ![p] = next]
    /\ Write(WriteAt(file, 1, proc[p].header))

-----------------------------------------------------------------------------
\* _sign_bytecode, _unsign_bytecode: of a file that there is.
Start(p, cmd) ==
    /\ exists
    /\ Command(p, [proc[p] EXCEPT !.pc = "check", !.cmd = cmd])

CheckValid(p) ==
    /\ proc[p].pc = "check"
    /\ \E h \in Headers(p) :
         \/ h.magic /\ Only(p, [proc[p] EXCEPT !.pc = "signed", !.header = h])
         \/ ~h.magic /\ GiveUp(p)

IsSigned(h) == h.signed /\ h.signature # 0

\* bytecode_is_signed, which the command asks and then the function it calls.
\* Without a file it is opened in vain and the process dies.
CheckSigned(p) ==
    /\ proc[p].pc = "signed"
    /\ \/ ~exists /\ GiveUp(p)
       \/ exists /\ \E h \in Headers(p) :
            \/ /\ IsSigned(h) = (proc[p].cmd = "unsign")
               /\ Step(p, [proc[p] EXCEPT !.pc = "open", !.header = h])
               /\ disturbed' = (disturbed \/ ~Alone(p))
               /\ UNCHANGED <<World, exists, file>>
            \/ IsSigned(h) # (proc[p].cmd = "unsign") /\ GiveUp(p)

\* Both read the header that they will write.
OpenForUpdate(p) ==
    /\ proc[p].pc = "open"
    /\ \E h \in Headers(p) :
         LET pc == IF proc[p].cmd = "unsign" THEN "unsign_cut" ELSE "sign_read"
         IN Only(p, [proc[p] EXCEPT !.pc = pc, !.header = h, !.parts = <<>>])

\* bytecode_add_signature: of what it has read, to the end of the file as it is.
\* That gpg_sign gave none, gpg being missing or without the key, is not looked at.
SignHeader(p) ==
    /\ proc[p].pc = "sign_read" /\ Len(proc[p].parts) = proc[p].header.len
    /\ \E n \in {0, 1} :
         LET h == [proc[p].header EXCEPT !.signed = TRUE, !.signature = Len(file),
                                         !.signature_len = n]
         IN /\ Step(p, [proc[p] EXCEPT !.pc = "sign_tail", !.header = h])
            /\ Write(WriteAt(file, 1, h))

SignTail(p) ==
    LET h == proc[p].header
    IN /\ proc[p].pc = "sign_tail"
       /\ End(p)
       /\ Write(IF h.signature_len = 0 THEN file
                ELSE WriteAt(file, h.signature + 1, Signature(proc[p].parts)))

\* Mutant: the flag stays.
UnsignCutFlagged(p) ==
    /\ proc[p].pc = "unsign_cut"
    /\ LET h == [proc[p].header EXCEPT !.signature = 0, !.signature_len = 0]
       IN Step(p, [proc[p] EXCEPT !.pc = "unsign_head", !.header = h])
    /\ Write(Cut(file, proc[p].header.signature))

\* bytecode_remove_signature: ftruncate, which also makes a file longer, goes
\* before the header, which waits in the buffer for fclose.
UnsignCut(p) ==
    /\ proc[p].pc = "unsign_cut"
    /\ LET h == [proc[p].header EXCEPT !.signed = FALSE, !.signature = 0, !.signature_len = 0]
       IN Step(p, [proc[p] EXCEPT !.pc = "unsign_head", !.header = h])
    /\ Write(Cut(file, proc[p].header.signature))

UnsignHeader(p) ==
    /\ proc[p].pc = "unsign_head"
    /\ End(p)
    /\ Write(WriteAt(file, 1, proc[p].header))

-----------------------------------------------------------------------------
\* The author saves another version, in the same second or a later one.
Edit ==
    /\ OneMore("events")
    /\ \E v \in Versions \ {source.version}, t \in {source.mtime, source.mtime + 1} :
        /\ source' = [version |-> v, mtime |-> t]
        /\ careless' = (careless \/ t = source.mtime \/ \E p \in Procs : Compiling(p))
        /\ proc' = [p \in Procs |->
                        IF proc[p].cmd = "exec"
                        THEN [proc[p] EXCEPT !.since = @ \cup {v}] ELSE proc[p]]
    /\ UNCHANGED <<exists, file, disturbed>>

Crash(p) ==
    /\ proc[p].pc # "idle"
    /\ OneMore("events")
    /\ End(p)
    /\ disturbed' = (disturbed \/ Torn(p))
    /\ UNCHANGED <<source, exists, file, careless>>

Next ==
    \/ \E p \in Procs :
        \/ Exec(p) \/ Compile(p)
        \/ \E cmd \in {"sign", "unsign"} : Start(p, cmd)
        \/ Look(p) \/ LoadValid(p) \/ LoadHeader(p) \/ ReadPart(p) \/ Run(p)
        \/ \E verify \in BOOLEAN : Load(p, verify)
        \/ \E write \in BOOLEAN : Generate(p, write)
        \/ SaveStamp(p) \/ SaveOpen(p) \/ SavePart(p) \/ SaveHeader(p)
        \/ CheckValid(p) \/ CheckSigned(p) \/ OpenForUpdate(p)
        \/ SignHeader(p) \/ SignTail(p) \/ UnsignCut(p) \/ UnsignHeader(p)
        \/ Crash(p)
    \/ Edit

Spec == Init /\ [][Next]_vars

-----------------------------------------------------------------------------
\* Every read stays within what the header announces, a version and a time stamp are
\* ones there were, and nothing is in a file that was never opened.
TypeOK ==
    /\ source \in [version : Versions, mtime : 1 .. Limits.events + 1]
    /\ \A p \in Procs :
        /\ Len(proc[p].parts) <= proc[p].header.len
        /\ proc[p].version \in Versions \cup {0}
        /\ proc[p].mtime \in 0 .. source.mtime
    /\ file # <<>> => exists

\* bytecode_load: what is run is the whole bytecode of one version, whatever was
\* left by a crash, a full disk or two writers at a time, also while it was read.
RunsWhole ==
    \A p \in Procs : proc[p].pc = "run" => proc[p].version \in Versions

\* do_exec, fcgi_loop: what is run is a version that the source had at some time
\* since the call, unless an edit was made during a compilation or without
\* changing the time stamp.
Fresh ==
    ~careless =>
        \A p \in Procs : proc[p].pc = "run" =>
            proc[p].version \in proc[p].since

\* bytecode_save, bytecode_add_signature, bytecode_remove_signature: when nobody writes,
\* and the last who did was alone, came to the end and had every write succeed, the
\* file has a whole stream and the header that goes with it, and behind it a signature
\* of that stream when the header says that there is one and of what length, which is
\* 0 when gpg gave none, and nothing else.
WholeAtRest ==
    (exists /\ ~disturbed /\ \A p \in Procs : ~Writing(p)) =>
        /\ file # <<>> /\ file[1].magic
        /\ \E v \in Versions : file = Whole(v, file[1].timestamp, file[1].signed, file[1].signature_len)
=============================================================================

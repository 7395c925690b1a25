---------------------------- MODULE Cache_proofs ----------------------------
(***************************************************************************)
(* What the bytecode file and its users guarantee for every number of      *)
(* processes, versions and lengths of bytecode: the reads keep to the      *)
(* header, what runs is whole and fresh, and the file is whole when nobody *)
(* writes and the last who did came to the end alone.                      *)
(***************************************************************************)
EXTENDS Cache, SequenceTheorems, TLAPS

IsHeader(h) ==
    /\ DOMAIN h = DOMAIN Garbage
    /\ h.timestamp \in Nat /\ h.len \in Nat /\ h.uncompressed \in Nat /\ h.signature \in Nat
    /\ h.signature_len \in Nat

\* What a file has in it is of no one type, so that a sequence is one of what it has.
IsSeq(s) == s \in Seq({s[i] : i \in DOMAIN s})

Reading == {"look", "valid", "load", "read", "generate", "run"}
Saving == {"stamp", "trunc", "write", "finish"}
Updating == {"open", "sign_read", "sign_tail", "unsign_cut", "unsign_head"}
Places == Reading \cup Saving \cup Updating \cup {"idle", "check", "signed"}

\* A process holds parts only while it reads or writes them, and never more than
\* the header says.
TypedProc(r) ==
    /\ DOMAIN r = DOMAIN Idle
    /\ r.pc \in Places
    /\ IsHeader(r.header)
    /\ IsSeq(r.parts) /\ Len(r.parts) <= r.header.len
    /\ r.version \in Versions \cup {0}
    /\ r.mtime \in 0 .. source.mtime
    /\ r.pc \notin {"read", "run", "sign_read", "sign_tail", "write", "finish"} => r.parts = <<>>
    /\ r.pc \in Saving \cup {"run"} => r.version \in Versions
    /\ r.pc \in {"trunc", "write", "finish"} => r.header = Header(r.version, r.header.timestamp)
    /\ r.pc = "write" => Len(r.parts) < r.header.len
    /\ r.pc = "finish" => Len(r.parts) = r.header.len
    /\ r.pc \in Updating \cup {"write", "finish"} => exists
    /\ r.pc \in Reading => r.cmd = "exec"
    /\ r.pc = "look" => r.mtime > 0

TypedFile ==
    /\ IsSeq(file)
    /\ file # <<>> => exists /\ IsHeader(HeaderOf(file))

Typed ==
    /\ source \in [version : Versions, mtime : Nat \ {0}]
    /\ counts \in [{"commands", "events"} -> Nat]
    /\ source.mtime <= counts["events"] + 1 /\ counts["events"] <= Limits["events"]
    /\ TypedFile
    /\ DOMAIN proc = Procs
    /\ \A p \in Procs : TypedProc(proc[p])

-----------------------------------------------------------------------------
\* The parts in s are of the versions V.
From(s, V) == \A i \in DOMAIN s : "of" \in DOMAIN s[i] => s[i].of \in V

\* A header with this time stamp is in the file, or may come to be there without
\* the file being emptied.
InUse(t) ==
    \/ file # <<>> /\ HeaderOf(file).timestamp = t
    \/ \E p \in Procs : proc[p].pc # "trunc" /\ proc[p].header.timestamp = t

\* What is so of a process, where f is the file.
FreshWith(r, f) ==
    /\ r.header.timestamp <= source.mtime
    /\ r.pc \in Saving => r.version = source.version
    /\ r.cmd = "exec" => source.version \in r.since
    /\ r.pc \in {"valid", "load", "read"} => From(f, r.since) /\ From(r.parts, r.since)
    /\ r.cmd = "exec" /\ r.pc \in Saving \cup {"run"} => r.version \in r.since
FreshProc(r) ==
    /\ FreshWith(r, file)
    /\ r.pc = "look" /\ InUse(r.mtime) => From(file, r.since)

FreshInv ==
    ~careless =>
        /\ file # <<>> => HeaderOf(file).timestamp <= source.mtime
        /\ InUse(source.mtime) => From(file, {source.version})
        /\ \A p \in Procs : FreshProc(proc[p])

-----------------------------------------------------------------------------
\* What the file is at rest: a whole one without a signature, or with the one that its
\* header announces, or with none when it announces a signature of length 0.
SignedHeader(v, mtime, n) ==
    [Header(v, mtime) EXCEPT !.signed = TRUE, !.signature = Parts[v] + 1, !.signature_len = n]

HasStream(v) == \A i \in 1 .. Parts[v] : file[i + 1] = Part(v, i)
Plain(v) ==
    /\ Len(file) = Parts[v] + 1 /\ HasStream(v)
    /\ file[1] = Header(v, file[1].timestamp)
SignedBy(v, n) ==
    /\ Len(file) = Parts[v] + 1 + n /\ HasStream(v)
    /\ file[1] = SignedHeader(v, file[1].timestamp, n)
    /\ n = 1 => file[Parts[v] + 2] = Signature(Stream(v))
Signed(v) == \E n \in {0, 1} : SignedBy(v, n)

\* The file as the only process that writes it has it.
Shape(r) ==
    /\ r.pc \in {"write", "finish"} =>
        /\ Len(file) = (IF r.parts = <<>> THEN 0 ELSE Len(r.parts) + 1)
        /\ \A i \in 1 .. Len(r.parts) : file[i + 1] = Part(r.version, i)
    /\ r.pc = "open" => \E v \in Versions : IF r.cmd = "unsign" THEN Signed(v) ELSE Plain(v)
    /\ r.pc = "sign_read" =>
        \E v \in Versions : /\ Plain(v) /\ r.header = file[1]
                            /\ \A i \in 1 .. Len(r.parts) : r.parts[i] = Part(v, i)
    /\ r.pc = "sign_tail" =>
        \E v \in Versions, n \in {0, 1} :
            /\ Len(file) = Parts[v] + 1 /\ HasStream(v)
            /\ r.header = SignedHeader(v, r.header.timestamp, n) /\ file[1] = r.header
            /\ r.parts = Stream(v)
    /\ r.pc = "unsign_cut" => \E v \in Versions : Signed(v) /\ r.header = file[1]
    /\ r.pc = "unsign_head" =>
        \E v \in Versions : /\ Len(file) = Parts[v] + 1 /\ HasStream(v)
                            /\ r.header = Header(v, r.header.timestamp)

\* Undisturbed, one process writes at most, the file is then as it has it, and at
\* rest it is a whole one.
RestInv ==
    ~disturbed =>
        /\ \A p, q \in Procs : Writing(p) /\ Writing(q) => p = q
        /\ exists /\ (\A p \in Procs : ~Writing(p)) => \E v \in Versions : Plain(v) \/ Signed(v)
        /\ \A p \in Procs : Shape(proc[p])

-----------------------------------------------------------------------------
(* Sequences of anything, as parts and files are.                          *)

\* What is indexed from 1 to n is a sequence of length n.
LEMMA FunctionSeq ==
  ASSUME NEW n \in Nat, NEW f, f = [i \in 1 .. n |-> f[i]]
  PROVE  IsSeq(f) /\ Len(f) = n /\ DOMAIN f = 1 .. n
<1> DEFINE S == {f[i] : i \in DOMAIN f}
<1>1. DOMAIN f = 1 .. n
  OBVIOUS
<1>2. f \in [1 .. n -> S]
  BY <1>1
<1> HIDE DEF S
<1>3. f \in Seq(S)
  BY <1>2, SeqDef
<1>4. Len(f) = n
  BY <1>1, <1>3, LenProperties
<1>. QED
  BY <1>1, <1>3, <1>4 DEF IsSeq, S

\* A sequence has a length and is indexed up to it.
LEMMA Indexed ==
  ASSUME NEW s, IsSeq(s)
  PROVE  /\ Len(s) \in Nat /\ DOMAIN s = 1 .. Len(s)
         /\ s = <<>> <=> Len(s) = 0
         /\ s = [i \in 1 .. Len(s) |-> s[i]]
<1> DEFINE S == {s[i] : i \in DOMAIN s}
<1>1. s \in Seq(S)
  BY DEF IsSeq
<1> HIDE DEF S
<1>. QED
  BY <1>1, LenProperties, EmptySeq

\* The empty sequence.
LEMMA Empty == IsSeq(<<>>) /\ Len(<<>>) = 0
  BY EmptySeq DEF IsSeq

\* Sequences of one length with the same elements are one sequence.
LEMMA SameSeq ==
  ASSUME NEW s, IsSeq(s), NEW t, IsSeq(t), Len(s) = Len(t),
         \A i \in 1 .. Len(s) : s[i] = t[i]
  PROVE  s = t
  BY Indexed

\* Append puts one element behind the others.
LEMMA AppendSeq ==
  ASSUME NEW s, IsSeq(s), NEW x
  PROVE  /\ IsSeq(Append(s, x)) /\ Len(Append(s, x)) = Len(s) + 1 /\ Append(s, x) # <<>>
         /\ \A i \in 1 .. Len(s) : Append(s, x)[i] = s[i]
         /\ Append(s, x)[Len(s) + 1] = x
<1> DEFINE S == {s[i] : i \in DOMAIN s} \cup {x}
           t == Append(s, x)
<1>1. s \in Seq(S) /\ x \in S
  BY SeqMonotonic DEF IsSeq
<1> HIDE DEF S
<1>2. /\ t \in Seq(S) /\ Len(t) = Len(s) + 1 /\ Len(s) \in Nat
      /\ \A i \in 1 .. Len(s) : t[i] = s[i]
      /\ t[Len(s) + 1] = x
  BY <1>1, AppendProperties, LenProperties
<1>3. t = [i \in 1 .. Len(t) |-> t[i]] /\ Len(t) \in Nat
  BY <1>2, LenProperties
<1> HIDE DEF t
<1>4. IsSeq(t)
  BY <1>3, FunctionSeq
<1>5. t # <<>>
  BY <1>2, <1>4, Indexed
<1>. QED
  BY <1>2, <1>4, <1>5 DEF t

\* Cut makes a file as long as it says, with holes where it was shorter.
LEMMA CutSeq ==
  ASSUME NEW f, NEW n \in Nat
  PROVE  /\ IsSeq(Cut(f, n)) /\ Len(Cut(f, n)) = n
         /\ \A i \in 1 .. n : Cut(f, n)[i] = At(f, i)
<1> DEFINE t == Cut(f, n)
<1>1. t = [i \in 1 .. n |-> t[i]] /\ \A i \in 1 .. n : t[i] = At(f, i)
  BY DEF Cut
<1> HIDE DEF t
<1>2. IsSeq(t) /\ Len(t) = n
  BY <1>1, FunctionSeq
<1>. QED
  BY <1>1, <1>2 DEF t

\* WriteAt changes one place and keeps the others, and makes a file longer at most.
LEMMA WriteSeq ==
  ASSUME NEW f, IsSeq(f), NEW pos \in Nat \ {0}, NEW x
  PROVE  LET n == IF pos > Len(f) THEN pos ELSE Len(f)
             t == WriteAt(f, pos, x)
         IN /\ IsSeq(t) /\ Len(t) = n /\ t # <<>>
            /\ \A i \in 1 .. n : t[i] = IF i = pos THEN x ELSE At(f, i)
<1> DEFINE n == IF pos > Len(f) THEN pos ELSE Len(f)
           t == WriteAt(f, pos, x)
           c == Cut(f, n)
<1>1. n \in Nat /\ pos \in 1 .. n /\ n # 0
  BY Indexed
<1>2. t = [c EXCEPT ![pos] = x]
  BY DEF WriteAt
<1> HIDE DEF n, t
<1>3. /\ IsSeq(c) /\ Len(c) = n
      /\ \A i \in 1 .. n : c[i] = At(f, i)
  BY <1>1, CutSeq
<1> HIDE DEF c
<1>4. DOMAIN c = 1 .. n
  BY <1>3, Indexed
<1>5. /\ t = [i \in 1 .. n |-> t[i]]
      /\ \A i \in 1 .. n : t[i] = IF i = pos THEN x ELSE At(f, i)
  BY <1>1, <1>2, <1>3, <1>4
<1>6. IsSeq(t) /\ Len(t) = n
  BY <1>1, <1>5, FunctionSeq
<1>7. t # <<>>
  BY <1>1, <1>6, Indexed
<1>. QED
  BY <1>5, <1>6, <1>7 DEF n, t

\* What is written over a cell of the file leaves the others.
LEMMA WriteInside ==
  ASSUME NEW f, IsSeq(f), NEW pos \in 1 .. Len(f), NEW x
  PROVE  /\ IsSeq(WriteAt(f, pos, x)) /\ Len(WriteAt(f, pos, x)) = Len(f)
         /\ WriteAt(f, pos, x)[pos] = x
         /\ \A i \in 1 .. Len(f) : i # pos => WriteAt(f, pos, x)[i] = f[i]
<1>1. Len(f) \in Nat /\ DOMAIN f = 1 .. Len(f) /\ pos \in Nat \ {0} /\ ~(pos > Len(f))
  BY Indexed
<1> DEFINE n == IF pos > Len(f) THEN pos ELSE Len(f)
           t == WriteAt(f, pos, x)
<1>2. IsSeq(t) /\ Len(t) = n /\ \A i \in 1 .. n : t[i] = IF i = pos THEN x ELSE At(f, i)
  BY <1>1, WriteSeq
<1>3. n = Len(f)
  BY <1>1
<1> HIDE DEF n, t
<1>. QED
  BY <1>1, <1>2, <1>3 DEF At, t

\* What is written behind the file leaves what it had.
LEMMA WriteBehind ==
  ASSUME NEW f, IsSeq(f), NEW x
  PROVE  LET pos == Len(f) + 1
         IN /\ IsSeq(WriteAt(f, pos, x)) /\ Len(WriteAt(f, pos, x)) = pos
            /\ WriteAt(f, pos, x)[pos] = x
            /\ \A i \in 1 .. Len(f) : WriteAt(f, pos, x)[i] = f[i]
<1> DEFINE pos == Len(f) + 1
           n == IF pos > Len(f) THEN pos ELSE Len(f)
           t == WriteAt(f, pos, x)
<1>1. Len(f) \in Nat /\ DOMAIN f = 1 .. Len(f) /\ pos \in Nat \ {0} /\ pos > Len(f)
  BY Indexed
<1> HIDE DEF pos
<1>2. IsSeq(t) /\ Len(t) = n /\ \A i \in 1 .. n : t[i] = IF i = pos THEN x ELSE At(f, i)
  BY <1>1, WriteSeq
<1>3. n = pos
  BY <1>1
<1> HIDE DEF n, t
<1>4. \A i \in 1 .. Len(f) : i \in 1 .. pos /\ i # pos /\ At(f, i) = f[i]
  BY <1>1 DEF At, pos
<1>5. pos \in 1 .. pos
  BY <1>1
<1>. QED
  BY <1>2, <1>3, <1>4, <1>5 DEF pos, t

\* Of every version there is a stream of at least one part.
LEMMA StreamSeq ==
  ASSUME NEW v \in Versions
  PROVE  /\ Parts[v] \in Nat \ {0} /\ Sizes[v] \in Nat
         /\ IsSeq(Stream(v)) /\ Len(Stream(v)) = Parts[v] /\ DOMAIN Stream(v) = 1 .. Parts[v]
         /\ \A i \in 1 .. Parts[v] : Stream(v)[i] = Part(v, i)
<1>1. Parts[v] \in Nat \ {0} /\ Sizes[v] \in Nat
  BY CacheAssumption
<1> DEFINE t == Stream(v)
<1>2. t = [i \in 1 .. Parts[v] |-> t[i]] /\ \A i \in 1 .. Parts[v] : t[i] = Part(v, i)
  BY DEF Stream
<1> HIDE DEF t
<1>3. IsSeq(t) /\ Len(t) = Parts[v] /\ DOMAIN t = 1 .. Parts[v]
  BY <1>1, <1>2, FunctionSeq
<1>. QED
  BY <1>1, <1>2, <1>3 DEF t

\* What decompresses begins with a part of the version that it gives.
LEMMA Decompressed ==
  ASSUME NEW parts, IsSeq(parts), NEW v \in bzip2_decompress(parts)
  PROVE  v \in Versions /\ 1 \in DOMAIN parts /\ parts[1] = Part(v, 1)
<1>1. v \in Versions /\ IsPrefix(Stream(v), parts)
  BY DEF bzip2_decompress
<1>2. Len(parts) \in Nat /\ DOMAIN parts = 1 .. Len(parts)
  BY Indexed
<1>3. /\ Len(Stream(v)) \in Nat \ {0} /\ Len(Stream(v)) <= Len(parts)
      /\ DOMAIN Stream(v) = 1 .. Len(Stream(v)) /\ Stream(v)[1] = Part(v, 1)
  BY <1>1, StreamSeq DEF IsPrefix
<1> DEFINE n == Len(Stream(v))
<1>4. \A t : IsSeq(t) /\ n <= Len(t) => SubSeq(t, 1, n)[1] = t[1]
  <2> SUFFICES ASSUME NEW t, IsSeq(t), n <= Len(t) PROVE SubSeq(t, 1, n)[1] = t[1]
    OBVIOUS
  <2> DEFINE S == {t[i] : i \in DOMAIN t}
  <2>1. Len(t) \in Nat /\ DOMAIN t = 1 .. Len(t) /\ \A i \in DOMAIN t : t[i] \in S
    BY Indexed
  <2> HIDE DEF S, n
  <2>2. t \in Seq(S)
    BY DEF IsSeq, S
  <2>3. \A i \in 1 .. n : t[i] \in S
    BY <1>3, <2>1 DEF n
  <2>4. \A i \in 1 .. (n - 1 + 1) : SubSeq(t, 1, n)[i] = t[1 + i - 1]
    BY <1>3, <2>1, <2>2, <2>3, SubSeqProperties DEF n
  <2>. QED
    BY <1>3, <2>4 DEF n
<1>5. SubSeq(Stream(v), 1, n) = SubSeq(parts, 1, n)
  BY <1>1 DEF IsPrefix
<1>6. SubSeq(Stream(v), 1, n)[1] = Stream(v)[1] /\ SubSeq(parts, 1, n)[1] = parts[1]
  BY <1>1, <1>3, <1>4, StreamSeq
<1>. QED
  BY <1>1, <1>2, <1>3, <1>5, <1>6

\* A whole file that is not signed: the header, then the stream.
LEMMA PlainSeq ==
  ASSUME NEW v \in Versions, NEW t, NEW n \in {0, 1}
  PROVE  LET f == Whole(v, t, FALSE, n)
         IN /\ IsSeq(f) /\ Len(f) = Parts[v] + 1 /\ f[1] = Header(v, t)
            /\ \A i \in 1 .. Parts[v] : f[i + 1] = Part(v, i)
<1> DEFINE h == Header(v, t)
           S == {Stream(v)[i] : i \in DOMAIN Stream(v)} \cup {h}
           f == <<h>> \o Stream(v)
<1>1. Stream(v) \in Seq(S) /\ <<h>> \in Seq(S) /\ Len(<<h>>) = 1 /\ <<h>>[1] = h
  <2>1. Stream(v) \in Seq({Stream(v)[i] : i \in DOMAIN Stream(v)})
    BY StreamSeq DEF IsSeq
  <2>2. Stream(v) \in Seq(S)
    BY <2>1, SeqMonotonic
  <2>3. h \in S
    OBVIOUS
  <2> HIDE DEF S, h
  <2>. QED
    BY <2>2, <2>3
<1>2. Whole(v, t, FALSE, n) = f
  BY DEF Whole
<1>3. Parts[v] \in Nat \ {0} /\ Len(Stream(v)) = Parts[v] /\ \A i \in 1 .. Parts[v] : Stream(v)[i] = Part(v, i)
  BY StreamSeq
<1> HIDE DEF S, h
<1>4. /\ f \in Seq(S) /\ Len(f) = Parts[v] + 1 /\ f[1] = h
      /\ \A i \in 1 .. Parts[v] : f[i + 1] = Part(v, i)
  BY <1>1, <1>3, ConcatProperties
<1>5. f = [i \in 1 .. Len(f) |-> f[i]] /\ Len(f) \in Nat
  BY <1>4, LenProperties
<1> HIDE DEF f
<1>6. IsSeq(f)
  BY <1>5, FunctionSeq
<1>. QED
  BY <1>2, <1>4, <1>6 DEF h

\* A whole file that is signed: the header, the stream, and the signature of it.
LEMMA SignedSeq ==
  ASSUME NEW v \in Versions, NEW t, NEW n \in {0, 1}
  PROVE  LET f == Whole(v, t, TRUE, n)
         IN /\ IsSeq(f) /\ Len(f) = Parts[v] + 1 + n /\ f[1] = SignedHeader(v, t, n)
            /\ \A i \in 1 .. Parts[v] : f[i + 1] = Part(v, i)
            /\ n = 1 => f[Parts[v] + 2] = Signature(Stream(v))
<1> DEFINE h == SignedHeader(v, t, n)
           g == Signature(Stream(v))
           S == {Stream(v)[i] : i \in DOMAIN Stream(v)} \cup {h, g}
           end == [i \in 1 .. n |-> g]
           f == <<h>> \o Stream(v) \o end
<1>1. /\ Stream(v) \in Seq(S) /\ <<h>> \in Seq(S) /\ Len(<<h>>) = 1 /\ <<h>>[1] = h
      /\ end \in Seq(S) /\ Len(end) = n /\ (n = 1 => end[1] = g)
  <2>1. Stream(v) \in Seq({Stream(v)[i] : i \in DOMAIN Stream(v)})
    BY StreamSeq DEF IsSeq
  <2>2. Stream(v) \in Seq(S)
    BY <2>1, SeqMonotonic
  <2>3. h \in S /\ g \in S /\ n \in Nat
    OBVIOUS
  <2> HIDE DEF S, h, g
  <2>4. end \in [1 .. n -> S]
    BY <2>3
  <2>5. end \in Seq(S) /\ Len(end) = n
    <3> HIDE DEF end
    <3>1. end \in Seq(S)
      BY <2>3, <2>4, SeqDef
    <3>. QED
      BY <2>3, <2>4, <3>1, LenProperties
  <2>6. n = 1 => end[1] = g
    OBVIOUS
  <2>. QED
    BY <2>2, <2>3, <2>5, <2>6
<1>2. Whole(v, t, TRUE, n) = f
  <2>1. [Header(v, t) EXCEPT !.signed = TRUE, !.signature = Header(v, t).len + 1,
                             !.signature_len = n] = SignedHeader(v, t, n)
    BY DEF SignedHeader, Header
  <2>. QED
    BY <2>1 DEF Whole
<1>3. Parts[v] \in Nat \ {0} /\ Len(Stream(v)) = Parts[v] /\ \A i \in 1 .. Parts[v] : Stream(v)[i] = Part(v, i)
  BY StreamSeq
<1> HIDE DEF S, h, g, end
<1>4. /\ <<h>> \o Stream(v) \in Seq(S) /\ Len(<<h>> \o Stream(v)) = Parts[v] + 1
      /\ (<<h>> \o Stream(v))[1] = h
      /\ \A i \in 1 .. Parts[v] : (<<h>> \o Stream(v))[i + 1] = Part(v, i)
  BY <1>1, <1>3, ConcatProperties
<1>5. /\ f \in Seq(S) /\ Len(f) = Parts[v] + 1 + n /\ f[1] = h
      /\ \A i \in 1 .. Parts[v] : f[i + 1] = Part(v, i)
      /\ n = 1 => f[Parts[v] + 2] = g
  BY <1>1, <1>3, <1>4, ConcatProperties
<1>6. f = [i \in 1 .. Len(f) |-> f[i]] /\ Len(f) \in Nat
  BY <1>5, LenProperties
<1> HIDE DEF f
<1>7. IsSeq(f)
  BY <1>6, FunctionSeq
<1>. QED
  BY <1>2, <1>5, <1>7 DEF h, g

\* A file that has these is a whole one.
LEMMA WholeFile ==
  ASSUME IsSeq(file), NEW v \in Versions, Plain(v) \/ Signed(v)
  PROVE  /\ file # <<>> /\ file[1].magic
         /\ file = Whole(v, file[1].timestamp, file[1].signed, file[1].signature_len)
<1> DEFINE t == file[1].timestamp
<1>1. Parts[v] \in Nat \ {0}
  BY StreamSeq
<1>2. CASE Plain(v)
  <2>1. Len(file) = Parts[v] + 1 /\ file[1] = Header(v, t) /\ HasStream(v)
    BY <1>2 DEF Plain
  <2>2. \A i \in 1 .. Parts[v] : file[i + 1] = Part(v, i)
    BY <2>1 DEF HasStream
  <2>3. file[1].magic = TRUE /\ file[1].signed = FALSE
    BY <2>1 DEF Header
  <2> DEFINE n == file[1].signature_len
  <2>0. n \in {0, 1}
    BY <2>1 DEF Header
  <2> HIDE DEF t, n
  <2> DEFINE f == Whole(v, t, FALSE, n)
  <2>4. /\ IsSeq(f) /\ Len(f) = Parts[v] + 1 /\ f[1] = Header(v, t)
        /\ \A i \in 1 .. Parts[v] : f[i + 1] = Part(v, i)
    BY <2>0, PlainSeq
  <2> HIDE DEF f
  <2>5. \A i \in 1 .. Parts[v] + 1 : i = 1 \/ (i - 1 \in 1 .. Parts[v] /\ i = (i - 1) + 1)
    BY <1>1
  <2>6. \A i \in 1 .. Len(file) : file[i] = f[i]
    BY <2>1, <2>2, <2>4, <2>5
  <2>7. file = f
    BY <2>1, <2>4, <2>6, SameSeq
  <2>8. file # <<>>
    BY <1>1, <2>1, Indexed
  <2>. QED
    BY <2>3, <2>7, <2>8 DEF f, t, n
<1>3. CASE Signed(v)
  <2> PICK n \in {0, 1} : SignedBy(v, n)
    BY <1>3 DEF Signed
  <2>1. /\ Len(file) = Parts[v] + 1 + n /\ file[1] = SignedHeader(v, t, n) /\ HasStream(v)
        /\ n = 1 => file[Parts[v] + 2] = Signature(Stream(v))
    BY DEF SignedBy
  <2>2. \A i \in 1 .. Parts[v] : file[i + 1] = Part(v, i)
    BY <2>1 DEF HasStream
  <2>3. file[1].magic = TRUE /\ file[1].signed = TRUE /\ file[1].signature_len = n
    BY <2>1 DEF Header, SignedHeader
  <2> HIDE DEF t
  <2> DEFINE f == Whole(v, t, TRUE, n)
  <2>4. /\ IsSeq(f) /\ Len(f) = Parts[v] + 1 + n /\ f[1] = SignedHeader(v, t, n)
        /\ \A i \in 1 .. Parts[v] : f[i + 1] = Part(v, i)
        /\ n = 1 => f[Parts[v] + 2] = Signature(Stream(v))
    BY SignedSeq
  <2> HIDE DEF f
  <2>5. \A i \in 1 .. Parts[v] + 1 + n :
           i = 1 \/ (n = 1 /\ i = Parts[v] + 2) \/ (i - 1 \in 1 .. Parts[v] /\ i = (i - 1) + 1)
    BY <1>1
  <2>6. \A i \in 1 .. Len(file) : file[i] = f[i]
    BY <2>1, <2>2, <2>4, <2>5
  <2>7. file = f
    BY <2>1, <2>4, <2>6, SameSeq
  <2>8. file # <<>>
    BY <1>1, <2>1, Indexed
  <2>. QED
    BY <2>3, <2>7, <2>8 DEF f, t
<1>. QED
  BY <1>2, <1>3

-----------------------------------------------------------------------------
(* What is in a file, and what a process does to it.                       *)

\* The cells of a file are told apart by their fields: a header, a part, a
\* signature and a hole.
LEMMA Cells ==
  /\ IsHeader(Garbage) /\ Garbage.timestamp = 0
  /\ "of" \notin DOMAIN Garbage
  /\ DOMAIN Hole # DOMAIN Garbage /\ "of" \notin DOMAIN Hole
  /\ \A parts : DOMAIN Signature(parts) # DOMAIN Garbage /\ "of" \notin DOMAIN Signature(parts)
  /\ \A v, i : /\ DOMAIN Part(v, i) # DOMAIN Garbage /\ "of" \in DOMAIN Part(v, i)
               /\ Part(v, i).of = v
<1>1. IsHeader(Garbage) /\ Garbage.timestamp = 0 /\ "of" \notin DOMAIN Garbage
  BY DEF IsHeader, Garbage
<1>2. "magic" \in DOMAIN Garbage
  BY DEF Garbage
<1>3. "magic" \notin DOMAIN Hole /\ "of" \notin DOMAIN Hole
  BY DEF Hole
<1>4. ASSUME NEW parts PROVE "magic" \notin DOMAIN Signature(parts) /\ "of" \notin DOMAIN Signature(parts)
  BY DEF Signature
<1>5. ASSUME NEW v, NEW i
      PROVE  "magic" \notin DOMAIN Part(v, i) /\ "of" \in DOMAIN Part(v, i) /\ Part(v, i).of = v
  BY DEF Part
<1>. QED
  BY <1>1, <1>2, <1>3, <1>4, <1>5

\* The header of a version is one, signed or not.
LEMMA VersionHeader ==
  ASSUME NEW v \in Versions, NEW t \in Nat
  PROVE  /\ IsHeader(Header(v, t)) /\ Header(v, t).len = Parts[v] /\ Header(v, t).timestamp = t
         /\ \A n \in {0, 1} :
               IsHeader(SignedHeader(v, t, n)) /\ SignedHeader(v, t, n).timestamp = t
<1>1. Parts[v] \in Nat /\ Sizes[v] \in Nat
  BY StreamSeq
<1>. QED
  BY <1>1 DEF IsHeader, Header, SignedHeader, Garbage

\* Without the signature the header of a signed file is that of one that is not.
LEMMA UnsignedHeader ==
  ASSUME NEW v, NEW t, NEW n
  PROVE  [SignedHeader(v, t, n) EXCEPT !.signed = FALSE, !.signature = 0, !.signature_len = 0]
            = Header(v, t)
<1> DEFINE x == [SignedHeader(v, t, n) EXCEPT !.signed = FALSE, !.signature = 0, !.signature_len = 0]
           y == Header(v, t)
           D == {"magic", "timestamp", "len", "uncompressed", "signed", "signature", "signature_len"}
<1>1. y = [k \in D |-> y[k]]
  BY DEF Header
<1>2. x = [k \in D |-> x[k]]
  BY DEF Header, SignedHeader
<1>3. ASSUME NEW k \in D PROVE x[k] = y[k]
  <2> DEFINE z == SignedHeader(v, t, n)
  <2>1. DOMAIN z = D /\ z.magic = y.magic /\ z.timestamp = y.timestamp /\ z.len = y.len
        /\ z.uncompressed = y.uncompressed /\ y.signed = FALSE /\ y.signature = 0 /\ y.signature_len = 0
    BY DEF Header, SignedHeader
  <2>2. x = [z EXCEPT !.signed = FALSE, !.signature = 0, !.signature_len = 0]
    OBVIOUS
  <2> HIDE DEF z, y, x
  <2>3. x.signed = FALSE /\ x.signature = 0 /\ x.signature_len = 0
    BY <2>1, <2>2
  <2>4. \A i \in D \ {"signed", "signature", "signature_len"} : x[i] = z[i]
    BY <2>1, <2>2
  <2>5. /\ x.magic = z.magic /\ x.timestamp = z.timestamp
        /\ x.len = z.len /\ x.uncompressed = z.uncompressed
    BY <2>4
  <2>. QED
    BY <2>1, <2>3, <2>5
<1> HIDE DEF x, y, D
<1>4. x = y
  BY <1>1, <1>2, <1>3
<1>. QED
  BY <1>4 DEF x, y

\* What is read as the header of a file that was written to.
LEMMA HeaderWritten ==
  ASSUME NEW f, IsSeq(f), NEW pos \in Nat \ {0}, NEW x
  PROVE  LET t == WriteAt(f, pos, x)
         IN /\ IsSeq(t) /\ t # <<>>
            /\ pos = 1 /\ IsHeader(x) => HeaderOf(t) = x
            /\ pos = 1 /\ DOMAIN x # DOMAIN Garbage => HeaderOf(t) = Garbage
            /\ pos # 1 /\ f # <<>> => HeaderOf(t) = HeaderOf(f)
            /\ pos # 1 /\ f = <<>> => HeaderOf(t) = Garbage
<1> DEFINE t == WriteAt(f, pos, x)
<1>1. /\ IsSeq(t) /\ t # <<>> /\ Len(t) \in Nat
      /\ \A i \in 1 .. Len(t) : t[i] = IF i = pos THEN x ELSE At(f, i)
  BY WriteSeq, Indexed
<1> HIDE DEF t
<1>2. t[1] = IF 1 = pos THEN x ELSE At(f, 1)
  BY <1>1, Indexed
<1>3. f # <<>> => At(f, 1) = f[1]
  BY Indexed DEF At
<1>4. f = <<>> => At(f, 1) = Hole
  BY Indexed, Empty DEF At
<1>. QED
  BY <1>1, <1>2, <1>3, <1>4, Cells DEF HeaderOf, IsHeader, t

\* Writing behind the header leaves what is read of it.
LEMMA HeaderBehind ==
  ASSUME NEW f, IsSeq(f), NEW n \in Nat \ {0}, NEW x
  PROVE  /\ IsSeq(WriteAt(f, n + 1, x)) /\ WriteAt(f, n + 1, x) # <<>>
         /\ f # <<>> => HeaderOf(WriteAt(f, n + 1, x)) = HeaderOf(f)
         /\ f = <<>> => HeaderOf(WriteAt(f, n + 1, x)) = Garbage
<1>1. n + 1 \in Nat \ {0} /\ n + 1 # 1
  OBVIOUS
<1> DEFINE pos == n + 1
<1> HIDE DEF pos
<1>2. /\ IsSeq(WriteAt(f, pos, x)) /\ WriteAt(f, pos, x) # <<>>
      /\ f # <<>> => HeaderOf(WriteAt(f, pos, x)) = HeaderOf(f)
      /\ f = <<>> => HeaderOf(WriteAt(f, pos, x)) = Garbage
  <2>1. pos \in Nat \ {0} /\ pos # 1
    BY <1>1 DEF pos
  <2>. QED
    BY <2>1, HeaderWritten
<1>. QED
  BY <1>2 DEF pos

\* What is read as the header of a file that was cut.
LEMMA HeaderCut ==
  ASSUME NEW f, IsSeq(f), NEW n \in Nat
  PROVE  LET t == Cut(f, n)
         IN /\ IsSeq(t)
            /\ t # <<>> => HeaderOf(t) = IF f = <<>> THEN Garbage ELSE HeaderOf(f)
<1> DEFINE t == Cut(f, n)
<1>1. /\ IsSeq(t) /\ Len(t) = n
      /\ \A i \in 1 .. n : t[i] = At(f, i)
  BY CutSeq
<1> HIDE DEF t
<1>2. t # <<>> => t[1] = At(f, 1)
  BY <1>1, Indexed
<1>3. f # <<>> => At(f, 1) = f[1]
  BY Indexed DEF At
<1>4. f = <<>> => At(f, 1) = Hole
  BY Indexed, Empty DEF At
<1>. QED
  BY <1>1, <1>2, <1>3, <1>4, Cells DEF HeaderOf, t

\* A header that is read is one, and that of the file, if this has one.
LEMMA HeadersRead ==
  ASSUME Typed, NEW p \in Procs, NEW h \in Headers(p)
  PROVE  /\ IsHeader(h)
         /\ file # <<>> => h = HeaderOf(file)
         /\ file = <<>> => h \in {Garbage, proc[p].header}
<1>1. file # <<>> <=> Len(file) > 0
  BY Indexed DEF Typed, TypedFile
<1>. QED
  BY <1>1, Cells DEF Typed, TypedFile, TypedProc, Headers

\* A step changes one process.
LEMMA Stepped ==
  ASSUME Typed, NEW p \in Procs, NEW next, Step(p, next)
  PROVE  /\ DOMAIN proc' = Procs /\ proc'[p] = next
         /\ \A q \in Procs \ {p} : proc'[q] = proc[q]
  BY DEF Typed, Step

\* The count of commands or events that a step adds to stays within its limit.
LEMMA Counted ==
  ASSUME Typed, NEW kind \in {"commands", "events"}, OneMore(kind)
  PROVE  /\ counts' \in [{"commands", "events"} -> Nat]
         /\ counts'["events"] \in counts["events"] .. Limits["events"]
         /\ kind = "events" => counts'["events"] = counts["events"] + 1
<1>1. Limits["events"] \in Nat
  BY CacheAssumption
<1>. QED
  BY <1>1 DEF Typed, OneMore

\* What a step writes is in the file, or the write failed and the file was disturbed.
LEMMA Wrote ==
  ASSUME NEW f, Write(f)
  PROVE  /\ UNCHANGED <<source, careless, exists>>
         /\ UNCHANGED counts \/ \E kind \in {"commands", "events"} : OneMore(kind)
         /\ file' = f \/ file' = file
         /\ disturbed => disturbed'
         /\ ~disturbed' => file' = f /\ ~disturbed
  BY DEF Write

\* What is left to show of a step that changes one process.
LEMMA OneTyped ==
  ASSUME Typed, NEW p \in Procs, DOMAIN proc' = Procs,
         \A q \in Procs \ {p} : proc'[q] = proc[q],
         UNCHANGED source, exists => exists', TypedFile',
         UNCHANGED counts \/ \E kind \in {"commands", "events"} : OneMore(kind),
         TypedProc(proc[p])'
  PROVE  Typed'
<1>1. /\ counts' \in [{"commands", "events"} -> Nat]
      /\ source'.mtime <= counts'["events"] + 1 /\ counts'["events"] <= Limits["events"]
  <2>1. Limits["events"] \in Nat
    BY CacheAssumption
  <2>2. \/ UNCHANGED counts
        \/ /\ counts' \in [{"commands", "events"} -> Nat]
           /\ counts'["events"] \in counts["events"] .. Limits["events"]
    BY Counted
  <2>. QED
    BY <2>1, <2>2 DEF Typed
<1>2. ASSUME NEW q \in Procs \ {p} PROVE TypedProc(proc[q])'
  BY <1>2 DEF Typed, TypedProc
<1>. QED
  BY <1>1, <1>2 DEF Typed

-----------------------------------------------------------------------------
(* Types.                                                                  *)

\* A process that is idle, or has read nothing but a header.
LEMMA TypedIdle == Typed => TypedProc(Idle)
  BY Empty, Cells DEF Typed, TypedProc, Idle, Reading, Saving, Updating, Places, IsHeader

\* A process that has read a header and goes on with it.
LEMMA TypedHeader ==
  ASSUME NEW r, TypedProc(r), r.parts = <<>>, NEW h, IsHeader(h),
         NEW pc \in {"valid", "load", "read", "signed", "open"},
         pc \in Reading => r.cmd = "exec", pc = "open" => exists
  PROVE  TypedProc([r EXCEPT !.pc = pc, !.header = h])
<1> DEFINE s == [r EXCEPT !.pc = pc, !.header = h]
<1>1. /\ DOMAIN s = DOMAIN r /\ s.pc = pc /\ s.header = h /\ s.cmd = r.cmd /\ s.parts = <<>>
      /\ s.version = r.version /\ s.mtime = r.mtime
  BY DEF TypedProc, Idle
<1>2. IsHeader(s.header) /\ IsSeq(s.parts) /\ Len(s.parts) <= s.header.len
  BY <1>1, Empty DEF IsHeader
<1> HIDE DEF s
<1>. QED
  <2>1. TypedProc(s)
    BY <1>1, <1>2 DEF TypedProc, Reading, Saving, Updating, Places
  <2>. QED
    BY <2>1 DEF s

\* A process that gives up, or goes on to one of these with another header, time
\* or version, and a process that starts.
LEMMA TypedSimple ==
  ASSUME Typed, NEW p \in Procs,
         \/ Exec(p) \/ Look(p) \/ LoadValid(p) \/ LoadHeader(p) \/ ReadPart(p) \/ Run(p)
         \/ \E verify \in BOOLEAN : Load(p, verify)
         \/ \E write \in BOOLEAN : Generate(p, write)
         \/ Compile(p) \/ SaveStamp(p)
         \/ \E cmd \in {"sign", "unsign"} : Start(p, cmd)
         \/ CheckValid(p) \/ CheckSigned(p) \/ OpenForUpdate(p)
  PROVE  Typed'
<1> DEFINE r == proc[p]
           s == proc'[p]
           Rest == /\ DOMAIN proc' = Procs /\ \A q \in Procs \ {p} : proc'[q] = proc[q]
                   /\ UNCHANGED <<source, exists, file>>
                   /\ UNCHANGED counts \/ \E kind \in {"commands", "events"} : OneMore(kind)
<1>1. TypedProc(r) /\ source \in [version : Versions, mtime : Nat \ {0}]
  BY DEF Typed
<1>2. ASSUME Rest, TypedProc(s) PROVE Typed'
  BY <1>2, OneTyped DEF TypedFile, Typed, TypedProc
<1>3. ASSUME GiveUp(p) PROVE Typed'
  <2>1. Rest /\ s = Idle
    BY <1>3, Stepped DEF GiveUp, End, World
  <2>. QED
    BY <1>2, <2>1, TypedIdle DEF Typed, TypedProc, Idle
<1>4. ASSUME NEW next, Only(p, next) \/ Command(p, next) PROVE Rest /\ s = next
  BY <1>4, Stepped DEF Only, Command, World
<1> USE DEF Reading, Saving, Updating, Places
<1>0. /\ r.pc \in {"look", "valid", "load", "check", "signed", "open"} => r.parts = <<>>
      /\ r.pc \in Reading => r.cmd = "exec"
  BY <1>1 DEF TypedProc
<1>5. CASE Exec(p)
  <2>1. Rest /\ s = [r EXCEPT !.pc = "look", !.cmd = "exec",
                               !.mtime = source.mtime, !.since = {source.version}]
    BY <1>4, <1>5 DEF Exec
  <2>. QED
    BY <1>1, <1>2, <1>5, <2>1 DEF Exec, Command, Idle, TypedProc
<1>6. CASE Look(p)
  <2>1. Rest /\ r.pc = "look"
        /\ \/ s = [r EXCEPT !.pc = "generate", !.mtime = 0]
           \/ \E h : /\ IsHeader(h)
                     /\ s = [r EXCEPT !.pc = "valid", !.header = h, !.mtime = 0]
    <3>1. /\ r.pc = "look" /\ IsHeader(r.header)
          /\ \/ Only(p, [r EXCEPT !.pc = "generate", !.mtime = 0])
             \/ \E h : /\ IsHeader(h)
                       /\ Only(p, [r EXCEPT !.pc = "valid", !.header = h, !.mtime = 0])
      BY <1>1, <1>6, HeadersRead DEF Look, TypedProc
    <3>. QED
      BY <1>4, <3>1
  <2>2. CASE s = [r EXCEPT !.pc = "generate", !.mtime = 0]
    BY <1>1, <1>2, <2>1, <2>2 DEF Idle, TypedProc
  <2>3. ASSUME NEW h, IsHeader(h), s = [r EXCEPT !.pc = "valid", !.header = h, !.mtime = 0]
        PROVE  Typed'
    <3>1. r.parts = <<>> /\ r.cmd = "exec"
      BY <1>0, <2>1
    <3> DEFINE z == [r EXCEPT !.pc = "valid", !.header = h]
    <3>2. TypedProc(z) /\ z.pc = "valid"
      <4>1. TypedProc(z)
        BY <1>1, <2>3, <3>1, TypedHeader
      <4>. QED
        BY <1>1, <4>1 DEF TypedProc, Idle
    <3>3. s = [z EXCEPT !.mtime = 0]
      BY <1>1, <2>3 DEF Idle, TypedProc
    <3> HIDE DEF z
    <3>4. TypedProc(s)
      BY <1>1, <3>2, <3>3 DEF Idle, TypedProc
    <3>. QED
      BY <1>2, <2>1, <3>4
  <2>. QED
    BY <2>1, <2>2, <2>3

<1>7. CASE LoadValid(p)
  <2>1. \/ GiveUp(p)
        \/ /\ Rest /\ r.pc = "valid"
           /\ \E h : IsHeader(h) /\ s = [r EXCEPT !.pc = "load", !.header = h]
    BY <1>4, <1>7, HeadersRead DEF LoadValid
  <2>2. ASSUME NEW h, IsHeader(h), s = [r EXCEPT !.pc = "load", !.header = h], ~GiveUp(p)
        PROVE  Typed'
    <3>0. r.parts = <<>> /\ r.cmd = "exec"
      BY <1>0, <2>1, <2>2
    <3>1. TypedProc([r EXCEPT !.pc = "load", !.header = h])
      BY <1>1, <2>2, <3>0, TypedHeader
    <3>. QED
      BY <1>2, <2>1, <2>2, <3>1
  <2>. QED
    BY <1>3, <2>1, <2>2
<1>8. CASE LoadHeader(p)
  <2>1. \/ GiveUp(p)
        \/ /\ Rest /\ r.pc = "load" /\ file # <<>>
           /\ s = [r EXCEPT !.pc = "read", !.header = HeaderOf(file), !.parts = <<>>]
    BY <1>4, <1>8, Empty DEF LoadHeader
  <2>2. file # <<>> => IsHeader(HeaderOf(file))
    BY DEF Typed, TypedFile
  <2>3. CASE ~GiveUp(p)
    <3>1. s = [r EXCEPT !.pc = "read", !.header = HeaderOf(file)]
      BY <1>1, <1>0, <2>1, <2>3 DEF Idle, TypedProc
    <3>2. r.parts = <<>> /\ r.cmd = "exec"
      BY <1>0, <2>1, <2>3
    <3>3. TypedProc([r EXCEPT !.pc = "read", !.header = HeaderOf(file)])
      BY <1>1, <2>1, <2>2, <2>3, <3>2, TypedHeader
    <3>. QED
      BY <1>2, <2>1, <2>3, <3>1, <3>3
  <2>. QED
    BY <1>3, <2>3
<1>9. CASE ReadPart(p)
  <2>1. /\ Rest /\ r.pc \in {"read", "sign_read"} /\ Len(r.parts) < r.header.len
        /\ s = [r EXCEPT !.parts = Append(r.parts, At(file, Len(r.parts) + 2))]
    BY <1>4, <1>9 DEF ReadPart
  <2>2. /\ IsSeq(Append(r.parts, At(file, Len(r.parts) + 2)))
        /\ Len(Append(r.parts, At(file, Len(r.parts) + 2))) = Len(r.parts) + 1
    BY <1>1, AppendSeq DEF TypedProc
  <2>3. Len(r.parts) + 1 <= r.header.len
    BY <1>1, <2>1, Indexed DEF IsHeader, TypedProc
  <2>. QED
    BY <1>1, <1>2, <2>1, <2>2, <2>3 DEF Idle, TypedProc
<1>10. CASE Run(p)
  BY <1>3, <1>10 DEF Run
<1>11. ASSUME NEW verify, Load(p, verify) PROVE Typed'
  <2>1. \/ GiveUp(p)
        \/ /\ Rest /\ r.pc = "read"
           /\ \E v \in bzip2_decompress(r.parts) : s = [r EXCEPT !.pc = "run", !.version = v]
    BY <1>4, <1>11 DEF Load
  <2>2. \A v \in bzip2_decompress(r.parts) : v \in Versions
    BY <1>1, Decompressed DEF TypedProc
  <2>3. CASE ~GiveUp(p)
    BY <1>1, <1>2, <2>1, <2>2, <2>3 DEF Idle, TypedProc
  <2>. QED
    BY <1>3, <2>3
<1>12. ASSUME NEW write, Generate(p, write) PROVE Typed'
  <2>1. /\ Rest /\ r.pc = "generate"
        /\ s = [r EXCEPT !.pc = IF write THEN "stamp" ELSE "run", !.version = source.version]
    BY <1>4, <1>12 DEF Generate
  <2>2. \/ s = [r EXCEPT !.pc = "stamp", !.version = source.version]
        \/ s = [r EXCEPT !.pc = "run", !.version = source.version]
    BY <2>1
  <2>. QED
    BY <1>1, <1>2, <2>1, <2>2 DEF Idle, TypedProc
<1>13. CASE Compile(p)
  <2>1. Rest /\ r.pc = "idle" /\ s = [r EXCEPT !.pc = "stamp", !.cmd = "compile",
                                                !.version = source.version]
    BY <1>4, <1>13 DEF Compile, Command
  <2>. QED
    BY <1>1, <1>2, <2>1 DEF Idle, TypedProc
<1>14. CASE SaveStamp(p)
  <2>1. Rest /\ r.pc = "stamp" /\ s = [r EXCEPT !.pc = "trunc",
                                                 !.header = Header(r.version, source.mtime)]
    BY <1>4, <1>14 DEF SaveStamp
  <2>2. /\ IsHeader(Header(r.version, source.mtime))
        /\ Header(r.version, source.mtime).timestamp = source.mtime
    BY <1>1, <2>1, VersionHeader DEF TypedProc
  <2>. QED
    BY <1>1, <1>2, <2>1, <2>2, Empty DEF Idle, IsHeader, TypedProc
<1>15. ASSUME NEW cmd, Start(p, cmd) PROVE Typed'
  <2>1. Rest /\ r.pc = "idle" /\ s = [r EXCEPT !.pc = "check", !.cmd = cmd]
    BY <1>4, <1>15 DEF Start, Command
  <2>. QED
    BY <1>1, <1>2, <2>1 DEF Idle, TypedProc
<1>16. CASE CheckValid(p)
  <2>1. \/ GiveUp(p)
        \/ /\ Rest /\ r.pc = "check"
           /\ \E h : IsHeader(h) /\ s = [r EXCEPT !.pc = "signed", !.header = h]
    BY <1>4, <1>16, HeadersRead DEF CheckValid
  <2>2. ASSUME NEW h, IsHeader(h), s = [r EXCEPT !.pc = "signed", !.header = h], ~GiveUp(p)
        PROVE  Typed'
    <3>0. r.parts = <<>>
      BY <1>0, <2>1, <2>2
    <3>1. TypedProc([r EXCEPT !.pc = "signed", !.header = h])
      BY <1>1, <2>2, <3>0, TypedHeader
    <3>. QED
      BY <1>2, <2>1, <2>2, <3>1
  <2>. QED
    BY <1>3, <2>1, <2>2
<1>17. CASE CheckSigned(p)
  <2>1. \/ GiveUp(p)
        \/ /\ Rest /\ r.pc = "signed" /\ exists
           /\ \E h : IsHeader(h) /\ s = [r EXCEPT !.pc = "open", !.header = h]
    BY <1>17, HeadersRead, Stepped DEF CheckSigned, World
  <2>2. ASSUME NEW h, IsHeader(h), s = [r EXCEPT !.pc = "open", !.header = h], ~GiveUp(p)
        PROVE  Typed'
    <3>0. r.parts = <<>> /\ exists
      BY <1>0, <2>1, <2>2
    <3>1. TypedProc([r EXCEPT !.pc = "open", !.header = h])
      BY <1>1, <2>2, <3>0, TypedHeader
    <3>. QED
      BY <1>2, <2>1, <2>2, <3>1
  <2>. QED
    BY <1>3, <2>1, <2>2
<1>18. CASE OpenForUpdate(p)
  <2>1. /\ Rest /\ r.pc = "open"
        /\ \E h, pc : /\ IsHeader(h) /\ pc \in {"unsign_cut", "sign_read"}
                      /\ s = [r EXCEPT !.pc = pc, !.header = h, !.parts = <<>>]
    BY <1>4, <1>18, HeadersRead DEF OpenForUpdate
  <2>. QED
    BY <1>1, <1>2, <2>1, Empty DEF Idle, IsHeader, TypedProc
<1>. QED
  BY <1>5, <1>6, <1>7, <1>8, <1>9, <1>10, <1>11, <1>12, <1>13, <1>14, <1>15, <1>16, <1>17, <1>18

\* A process that has saved, or could not: it runs, is to sign, or ends.
LEMMA AfterSaving ==
  ASSUME Typed, NEW p \in Procs, proc[p].pc \in {"trunc", "finish"}, NEW next \in Saved(p)
  PROVE  /\ TypedProc(next) /\ next.header = Garbage /\ next.parts = <<>>
         /\ next = Idle \/ /\ next.pc \in {"run", "signed"} /\ next.cmd = proc[p].cmd
                           /\ next.pc = "run" => next.cmd = "exec"
                           /\ next.version = proc[p].version /\ next.since = proc[p].since
<1> DEFINE r == proc[p]
           after(pc) == [r EXCEPT !.pc = pc, !.parts = <<>>, !.header = Garbage]
<1>1. TypedProc(r)
  BY DEF Typed
<1>2. CASE next = Idle
  BY <1>2, TypedIdle DEF Idle
<1>3. ASSUME NEW pc \in {"run", "signed"}, pc = "run" => r.cmd = "exec"
      PROVE  /\ TypedProc(after(pc)) /\ after(pc).header = Garbage /\ after(pc).parts = <<>>
             /\ after(pc).pc = pc /\ after(pc).cmd = r.cmd
             /\ after(pc).version = r.version /\ after(pc).since = r.since
  <2> DEFINE s == after(pc)
  <2>1. /\ DOMAIN s = DOMAIN r /\ s.header = Garbage /\ s.parts = <<>> /\ s.pc = pc
        /\ s.cmd = r.cmd /\ s.version = r.version /\ s.since = r.since /\ s.mtime = r.mtime
    BY <1>1 DEF TypedProc, Idle
  <2>2. IsHeader(s.header) /\ IsSeq(s.parts) /\ Len(s.parts) <= s.header.len
    BY <2>1, Cells, Empty DEF IsHeader
  <2>3. r.version \in Versions
    BY <1>1 DEF TypedProc, Saving
  <2> HIDE DEF s
  <2>4. TypedProc(s)
    BY <1>1, <1>3, <2>1, <2>2, <2>3 DEF TypedProc, Reading, Saving, Updating, Places
  <2>. QED
    BY <2>1, <2>4 DEF s
<1>4. \/ r.cmd = "exec" /\ next = after("run")
      \/ next = after("signed")
      \/ next = Idle
  BY DEF Saved
<1> HIDE DEF after, r
<1>5. CASE r.cmd = "exec" /\ next = after("run")
  BY <1>3, <1>5 DEF r
<1>6. CASE next = after("signed")
  BY <1>3, <1>6 DEF r
<1>. QED
  BY <1>2, <1>4, <1>5, <1>6

\* What a step writes to the file leaves it one.
LEMMA TypedWritten ==
  ASSUME Typed, NEW pos \in Nat \ {0}, NEW x, IsHeader(x) \/ DOMAIN x # DOMAIN Garbage
  PROVE  LET t == WriteAt(file, pos, x)
         IN IsSeq(t) /\ t # <<>> /\ IsHeader(HeaderOf(t))
  BY HeaderWritten, Cells DEF Typed, TypedFile

\* A step that writes a bytecode file.
LEMMA TypedSave ==
  ASSUME Typed, NEW p \in Procs, SaveOpen(p) \/ SavePart(p) \/ SaveHeader(p)
  PROVE  Typed'
<1> DEFINE r == proc[p]
           s == proc'[p]
           Rest == /\ DOMAIN proc' = Procs /\ \A q \in Procs \ {p} : proc'[q] = proc[q]
                   /\ UNCHANGED source /\ (exists => exists')
                   /\ UNCHANGED counts \/ \E kind \in {"commands", "events"} : OneMore(kind)
<1>1. TypedProc(r)
  BY DEF Typed
<1>2. ASSUME Rest, TypedFile', TypedProc(s) PROVE Typed'
  BY <1>2, OneTyped DEF Typed, TypedProc
<1>3. r.pc \in {"trunc", "write", "finish"} =>
        /\ r.version \in Versions /\ r.header = Header(r.version, r.header.timestamp)
        /\ r.header.len = Parts[r.version] /\ Parts[r.version] \in Nat \ {0}
  <2> SUFFICES ASSUME r.pc \in {"trunc", "write", "finish"}
               PROVE  /\ r.version \in Versions /\ r.header = Header(r.version, r.header.timestamp)
                      /\ r.header.len = Parts[r.version] /\ Parts[r.version] \in Nat \ {0}
    OBVIOUS
  <2>1. /\ r.version \in Versions /\ r.header = Header(r.version, r.header.timestamp)
        /\ r.header.timestamp \in Nat
    BY <1>1 DEF TypedProc, Saving, IsHeader
  <2> HIDE DEF r
  <2>2. Header(r.version, r.header.timestamp).len = Parts[r.version] /\ Parts[r.version] \in Nat \ {0}
    BY <2>1, VersionHeader, StreamSeq
  <2>. QED
    BY <2>1, <2>2
<1>4. CASE SaveOpen(p)
  <2>1. r.pc = "trunc"
    BY <1>4 DEF SaveOpen
  <2>2. CASE /\ Step(p, [r EXCEPT !.pc = "write", !.parts = <<>>])
             /\ exists' = TRUE /\ file' = <<>> /\ UNCHANGED World
    <3>1. Rest /\ s = [r EXCEPT !.pc = "write", !.parts = <<>>] /\ TypedFile'
      BY <2>2, Stepped, Empty DEF World, TypedFile
    <3>2. /\ DOMAIN s = DOMAIN r /\ s.header = r.header /\ s.parts = <<>> /\ s.pc = "write"
          /\ s.version = r.version /\ s.mtime = r.mtime
      BY <1>1, <3>1 DEF TypedProc, Idle
    <3>3. Len(s.parts) = 0 /\ IsSeq(s.parts) /\ s.header.len \in Nat \ {0} /\ exists' = TRUE
      BY <1>3, <2>1, <2>2, <3>2, Empty
    <3> HIDE DEF s
    <3>4. TypedProc(proc[p])'
      BY <1>1, <1>3, <2>1, <3>1, <3>2, <3>3
      DEF TypedProc, Reading, Saving, Updating, Places, IsHeader, s
    <3>. QED
      BY <3>1, <3>4, OneTyped
  <2>3. CASE /\ OneMore("events")
             /\ \E next \in Saved(p) : proc' = [proc EXCEPT ![p] = next]
             /\ UNCHANGED <<source, exists, file>>
    <3>1. PICK next \in Saved(p) : Step(p, next)
      BY <2>3 DEF Step
    <3>2. TypedProc(next)
      BY <2>1, AfterSaving
    <3>3. Rest /\ s = next /\ TypedFile'
      BY <2>3, <3>1, Stepped DEF Typed, TypedFile
    <3>. QED
      BY <1>2, <3>2, <3>3
  <2>. QED
    BY <1>4, <2>2, <2>3 DEF SaveOpen
<1>5. CASE SavePart(p)
  <2> DEFINE n == Len(r.parts) + 1
             x == Part(r.version, n)
             base == IF n = 1 THEN WriteAt(file, 1, Garbage) ELSE file
             written == WriteAt(base, n + 1, x)
             pc == IF n = r.header.len THEN "finish" ELSE "write"
             parts == Append(r.parts, x)
  <2>1. /\ r.pc = "write" /\ Step(p, [r EXCEPT !.pc = pc, !.parts = parts])
        /\ UNCHANGED <<source, exists>> /\ (file' = written \/ file' = file)
        /\ UNCHANGED counts \/ \E kind \in {"commands", "events"} : OneMore(kind)
    <3>1. /\ r.pc = "write" /\ Step(p, [r EXCEPT !.pc = pc, !.parts = parts])
          /\ Write(written)
      BY <1>5 DEF SavePart
    <3> HIDE DEF written, r
    <3>. QED
      BY <3>1, Wrote
  <2>2. Rest /\ s = [r EXCEPT !.pc = pc, !.parts = parts]
    BY <2>1, Stepped
  <2>3. n \in Nat /\ n # 0 /\ n + 1 \in Nat \ {0} /\ n <= r.header.len /\ r.header.len \in Nat /\ exists
    BY <1>1, <2>1, Indexed DEF TypedProc, IsHeader
  <2>4. IsSeq(parts) /\ Len(parts) = n
    BY <1>1, AppendSeq DEF TypedProc
  <2>5. TypedFile'
    <3>1. IsSeq(base) /\ (base # <<>> => IsHeader(HeaderOf(base)))
      BY TypedWritten, Cells DEF Typed, TypedFile
    <3> HIDE DEF base, n, x
    <3>2. /\ IsSeq(written) /\ written # <<>>
          /\ base # <<>> => HeaderOf(written) = HeaderOf(base)
          /\ base = <<>> => HeaderOf(written) = Garbage
      BY <2>3, <3>1, HeaderBehind
    <3>3. IsHeader(HeaderOf(written))
      BY <3>1, <3>2, Cells
    <3> HIDE DEF written
    <3>. QED
      BY <2>1, <2>3, <3>2, <3>3 DEF Typed, TypedFile
  <2>6. /\ DOMAIN s = DOMAIN r /\ s.header = r.header /\ s.parts = parts /\ s.pc = pc
        /\ s.version = r.version /\ s.mtime = r.mtime
    BY <1>1, <2>2 DEF TypedProc, Idle
  <2> HIDE DEF parts, n, s
  <2>7. TypedProc(s)
    BY <1>1, <1>3, <2>1, <2>3, <2>4, <2>6 DEF TypedProc, Reading, Saving, Updating, Places
  <2>. QED
    BY <1>2, <2>2, <2>5, <2>7 DEF s
<1>6. CASE SaveHeader(p)
  <2>1. PICK next \in Saved(p) : Step(p, next)
    BY <1>6 DEF SaveHeader, Step
  <2>2. /\ r.pc = "finish" /\ UNCHANGED <<source, exists>>
        /\ file' = WriteAt(file, 1, r.header) \/ file' = file
        /\ UNCHANGED counts \/ \E kind \in {"commands", "events"} : OneMore(kind)
    BY <1>6, Wrote DEF SaveHeader
  <2>3. TypedProc(next) /\ IsHeader(r.header) /\ exists
    BY <1>1, <2>2, AfterSaving DEF TypedProc
  <2>4. TypedFile'
    <3>1. /\ IsSeq(WriteAt(file, 1, r.header)) /\ IsHeader(HeaderOf(WriteAt(file, 1, r.header)))
      BY <2>3, TypedWritten
    <3>. QED
      BY <2>2, <2>3, <3>1 DEF Typed, TypedFile
  <2>5. Rest /\ s = next
    BY <2>1, <2>2, Stepped
  <2>. QED
    BY <1>2, <2>3, <2>4, <2>5
<1>. QED
  BY <1>4, <1>5, <1>6

\* A step that writes or takes away a signature.
LEMMA TypedSign ==
  ASSUME Typed, NEW p \in Procs,
         SignHeader(p) \/ SignTail(p) \/ UnsignCut(p) \/ UnsignHeader(p)
  PROVE  Typed'
<1> DEFINE r == proc[p]
           s == proc'[p]
           Rest == /\ DOMAIN proc' = Procs /\ \A q \in Procs \ {p} : proc'[q] = proc[q]
                   /\ UNCHANGED <<source, exists>>
                   /\ UNCHANGED counts \/ \E kind \in {"commands", "events"} : OneMore(kind)
<1>1. TypedProc(r) /\ IsSeq(file) /\ Len(file) \in Nat
  BY Indexed DEF Typed, TypedFile
<1>2. ASSUME Rest, TypedFile', TypedProc(s) PROVE Typed'
  BY <1>2, OneTyped DEF Typed, TypedProc
<1>3. IsHeader(r.header) /\ r.header.signature \in Nat
  BY <1>1 DEF TypedProc, IsHeader
<1>4. ASSUME NEW b, NEW n \in Nat, NEW m \in Nat, NEW pc \in {"sign_tail", "unsign_head"},
             exists, pc = "unsign_head" => r.parts = <<>>
      PROVE  LET h == [r.header EXCEPT !.signed = b, !.signature = n, !.signature_len = m]
             IN TypedProc([r EXCEPT !.pc = pc, !.header = h]) /\ IsHeader(h)
  <2> DEFINE h == [r.header EXCEPT !.signed = b, !.signature = n, !.signature_len = m]
             z == [r EXCEPT !.pc = pc, !.header = h]
  <2>1. IsHeader(h) /\ h.len = r.header.len
    BY <1>3, <1>4 DEF IsHeader, Garbage
  <2> HIDE DEF h
  <2>2. /\ DOMAIN z = DOMAIN r /\ z.header = h /\ z.parts = r.parts /\ z.pc = pc
        /\ z.version = r.version /\ z.mtime = r.mtime
    BY <1>1 DEF TypedProc, Idle
  <2> HIDE DEF z
  <2>3. TypedProc(z)
    BY <1>1, <1>4, <2>1, <2>2 DEF TypedProc, Reading, Saving, Updating, Places
  <2>. QED
    BY <2>1, <2>3 DEF z, h
<1>5. r.pc \in Updating => exists
  BY <1>1 DEF TypedProc
<1>6. CASE SignHeader(p)
  <2>0. PICK n \in {0, 1} :
        LET h == [r.header EXCEPT !.signed = TRUE, !.signature = Len(file), !.signature_len = n]
        IN /\ Step(p, [r EXCEPT !.pc = "sign_tail", !.header = h])
           /\ Write(WriteAt(file, 1, h))
    BY <1>6 DEF SignHeader
  <2> DEFINE h == [r.header EXCEPT !.signed = TRUE, !.signature = Len(file), !.signature_len = n]
  <2>1. /\ r.pc = "sign_read" /\ Step(p, [r EXCEPT !.pc = "sign_tail", !.header = h])
        /\ UNCHANGED <<source, exists>> /\ (file' = WriteAt(file, 1, h) \/ file' = file)
        /\ UNCHANGED counts \/ \E kind \in {"commands", "events"} : OneMore(kind)
    <3>1. r.pc = "sign_read" /\ Step(p, [r EXCEPT !.pc = "sign_tail", !.header = h])
      BY <1>6, <2>0 DEF SignHeader
    <3>2. Write(WriteAt(file, 1, h))
      BY <2>0
    <3> HIDE DEF h, r
    <3>. QED
      BY <3>1, <3>2, Wrote
  <2>2. exists
    BY <1>5, <2>1 DEF Updating
  <2>3. TypedProc([r EXCEPT !.pc = "sign_tail", !.header = h]) /\ IsHeader(h)
    BY <1>1, <1>4, <2>2
  <2> HIDE DEF h
  <2>4. TypedFile'
    <3> DEFINE t == WriteAt(file, 1, h)
    <3>1. IsSeq(t) /\ IsHeader(HeaderOf(t))
      BY <2>3, TypedWritten
    <3> HIDE DEF t
    <3>2. file' = t \/ file' = file
      BY <2>1 DEF t
    <3>. QED
      BY <2>1, <2>2, <3>1, <3>2 DEF Typed, TypedFile
  <2>5. Rest /\ s = [r EXCEPT !.pc = "sign_tail", !.header = h]
    BY <2>1, Stepped
  <2>. QED
    BY <1>2, <2>3, <2>4, <2>5
<1>7. CASE SignTail(p)
  <2>1. /\ r.pc = "sign_tail" /\ Step(p, Idle)
        /\ UNCHANGED <<source, exists>>
        /\ file' = file \/ file' = WriteAt(file, r.header.signature + 1, Signature(r.parts))
        /\ UNCHANGED counts \/ \E kind \in {"commands", "events"} : OneMore(kind)
    BY <1>7, Wrote DEF SignTail, End
  <2>2. exists
    BY <1>5, <2>1 DEF Updating
  <2>3. TypedFile'
    <3> DEFINE t == WriteAt(file, r.header.signature + 1, Signature(r.parts))
    <3>1. IsSeq(t) /\ IsHeader(HeaderOf(t))
      BY <1>3, TypedWritten, Cells
    <3> HIDE DEF t
    <3>2. file' = t \/ file' = file
      BY <2>1 DEF t
    <3>. QED
      BY <2>1, <2>2, <3>1, <3>2 DEF Typed, TypedFile
  <2>4. Rest /\ s = Idle
    BY <2>1, Stepped
  <2>. QED
    BY <1>2, <2>3, <2>4, TypedIdle
<1>8. CASE UnsignCut(p)
  <2> DEFINE h == [r.header EXCEPT !.signed = FALSE, !.signature = 0, !.signature_len = 0]
  <2>1. /\ r.pc = "unsign_cut" /\ Step(p, [r EXCEPT !.pc = "unsign_head", !.header = h])
        /\ UNCHANGED <<source, exists>> /\ (file' = Cut(file, r.header.signature) \/ file' = file)
        /\ UNCHANGED counts \/ \E kind \in {"commands", "events"} : OneMore(kind)
    BY <1>8, Wrote DEF UnsignCut
  <2>2. exists /\ r.parts = <<>>
    BY <1>1, <1>5, <2>1 DEF Updating, TypedProc
  <2>3. TypedProc([r EXCEPT !.pc = "unsign_head", !.header = h])
    BY <1>4, <2>2
  <2> HIDE DEF h
  <2>4. TypedFile'
    BY <1>1, <1>3, <2>1, <2>2, HeaderCut, Cells DEF Typed, TypedFile
  <2>5. Rest /\ s = [r EXCEPT !.pc = "unsign_head", !.header = h]
    BY <2>1, Stepped
  <2>. QED
    BY <1>2, <2>3, <2>4, <2>5
<1>9. CASE UnsignHeader(p)
  <2>1. /\ r.pc = "unsign_head" /\ Step(p, Idle)
        /\ UNCHANGED <<source, exists>> /\ (file' = WriteAt(file, 1, r.header) \/ file' = file)
        /\ UNCHANGED counts \/ \E kind \in {"commands", "events"} : OneMore(kind)
    BY <1>9, Wrote DEF UnsignHeader, End
  <2>2. exists
    BY <1>5, <2>1 DEF Updating
  <2>3. TypedFile'
    <3>1. IsSeq(WriteAt(file, 1, r.header)) /\ IsHeader(HeaderOf(WriteAt(file, 1, r.header)))
      BY <1>3, TypedWritten
    <3>. QED
      BY <2>1, <2>2, <3>1 DEF Typed, TypedFile
  <2>4. Rest /\ s = Idle
    BY <2>1, Stepped
  <2>. QED
    BY <1>2, <2>3, <2>4, TypedIdle
<1>. QED
  BY <1>6, <1>7, <1>8, <1>9

\* An edit, and the end of a process.
LEMMA TypedEvent ==
  ASSUME Typed, Edit \/ \E p \in Procs : Crash(p)
  PROVE  Typed'
<1>1. CASE Edit
  <2>1. PICK v \in Versions, t \in {source.mtime, source.mtime + 1} :
           /\ source' = [version |-> v, mtime |-> t]
           /\ proc' = [p \in Procs |->
                          IF proc[p].cmd = "exec"
                          THEN [proc[p] EXCEPT !.since = @ \cup {v}] ELSE proc[p]]
    BY <1>1 DEF Edit
  <2>2. OneMore("events") /\ UNCHANGED <<exists, file>>
    BY <1>1 DEF Edit
  <2>3. /\ counts' \in [{"commands", "events"} -> Nat]
        /\ counts'["events"] = counts["events"] + 1 /\ counts'["events"] <= Limits["events"]
    <3>1. Limits["events"] \in Nat /\ counts["events"] \in Nat
      BY CacheAssumption DEF Typed
    <3>. QED
      BY <2>2, <3>1, Counted
  <2>4. /\ source' \in [version : Versions, mtime : Nat \ {0}]
        /\ source.mtime \in Nat /\ source'.mtime \in Nat
        /\ source.mtime <= source'.mtime /\ source'.mtime <= counts'["events"] + 1
    BY <2>1, <2>3 DEF Typed
  <2>5. ASSUME NEW p \in Procs PROVE TypedProc(proc[p])'
    <3> DEFINE r == proc[p]
               s == proc'[p]
    <3>1. TypedProc(r)
      BY DEF Typed
    <3>2. /\ DOMAIN s = DOMAIN r /\ s.pc = r.pc /\ s.cmd = r.cmd /\ s.header = r.header
          /\ s.parts = r.parts /\ s.version = r.version /\ s.mtime = r.mtime
      BY <2>1, <3>1 DEF TypedProc, Idle
    <3>3. r.mtime \in 0 .. source'.mtime
      BY <2>4, <3>1 DEF TypedProc
    <3>. QED
      BY <2>2, <3>1, <3>2, <3>3 DEF TypedProc
  <2>6. TypedFile' /\ DOMAIN proc' = Procs
    BY <2>1, <2>2 DEF Typed, TypedFile
  <2>. QED
    BY <2>3, <2>4, <2>5, <2>6 DEF Typed
<1>2. ASSUME NEW p \in Procs, Crash(p) PROVE Typed'
  <2>1. Step(p, Idle) /\ OneMore("events") /\ UNCHANGED <<source, exists, file>>
    BY <1>2 DEF Crash, End
  <2>2. /\ DOMAIN proc' = Procs /\ proc'[p] = Idle
        /\ \A q \in Procs \ {p} : proc'[q] = proc[q]
    BY <2>1, Stepped
  <2>3. TypedProc(proc[p])' /\ TypedFile'
    BY <2>1, <2>2, TypedIdle DEF TypedProc, Typed, TypedFile
  <2>. QED
    BY <2>1, <2>2, <2>3, OneTyped
<1>. QED
  BY <1>1, <1>2

\* Every step keeps the types.
LEMMA NextTyped == Typed /\ [Next]_vars => Typed'
<1> SUFFICES ASSUME Typed, [Next]_vars PROVE Typed'
  OBVIOUS
<1>1. CASE UNCHANGED vars
  BY <1>1 DEF vars, Typed, TypedFile, TypedProc
<1>. QED
  BY <1>1, TypedSimple, TypedSave, TypedSign, TypedEvent DEF Next

\* At first the file is not there or has the bytecode of the source.
LEMMA InitTyped ==
  Init => Typed /\ (exists => \E v \in Versions : Plain(v) \/ Signed(v))
               /\ (file # <<>> => HeaderOf(file).timestamp = source.mtime)
               /\ From(file, {source.version}) /\ source.mtime = 1
<1> SUFFICES ASSUME Init
             PROVE  /\ Typed /\ (exists => \E v \in Versions : Plain(v) \/ Signed(v))
                    /\ (file # <<>> => HeaderOf(file).timestamp = source.mtime)
                    /\ From(file, {source.version}) /\ source.mtime = 1
  OBVIOUS
<1>1. /\ source = [version |-> 1, mtime |-> 1] /\ 1 \in Versions
      /\ proc = [p \in Procs |-> Idle] /\ counts = [kind \in {"commands", "events"} |-> 0]
      /\ DOMAIN Limits = {"commands", "events"} /\ Limits["events"] \in Nat
  BY CacheAssumption DEF Init
<1>2. /\ source \in [version : Versions, mtime : Nat \ {0}] /\ source.mtime = 1 /\ source.version = 1
      /\ counts \in [{"commands", "events"} -> Nat] /\ counts["events"] = 0
  BY <1>1
<1>3. ASSUME TypedFile PROVE Typed
  <2>1. TypedProc(Idle)
    BY <1>2, Empty, Cells DEF TypedProc, Idle, Reading, Saving, Updating, Places, IsHeader
  <2>. QED
    BY <1>1, <1>2, <1>3, <2>1 DEF Typed
<1>4. CASE exists = FALSE /\ file = <<>>
  BY <1>2, <1>3, <1>4, Empty DEF TypedFile, From
<1>5. ASSUME NEW n \in {0, 1}, exists = TRUE, file = Whole(1, 1, FALSE, n)
      PROVE  /\ Typed /\ \E v \in Versions : Plain(v) \/ Signed(v)
             /\ HeaderOf(file).timestamp = source.mtime
             /\ From(file, {source.version}) /\ source.mtime = 1
  <2>1. /\ IsSeq(file) /\ Len(file) = Parts[1] + 1 /\ file[1] = Header(1, 1)
        /\ \A i \in 1 .. Parts[1] : file[i + 1] = Part(1, i)
    <3> DEFINE f == Whole(1, 1, FALSE, n)
    <3>1. /\ IsSeq(f) /\ Len(f) = Parts[1] + 1 /\ f[1] = Header(1, 1)
          /\ \A i \in 1 .. Parts[1] : f[i + 1] = Part(1, i)
      BY <1>1, PlainSeq
    <3> HIDE DEF f
    <3>2. file = f
      BY <1>5 DEF f
    <3>. QED
      BY <3>1, <3>2
  <2>2. IsHeader(file[1]) /\ file[1].timestamp = 1 /\ Parts[1] \in Nat \ {0}
    BY <1>1, <2>1, VersionHeader, StreamSeq
  <2>3. Plain(1)
    BY <2>1, <2>2 DEF Plain, HasStream
  <2>4. TypedFile /\ HeaderOf(file) = file[1]
    BY <1>5, <2>1, <2>2 DEF TypedFile, HeaderOf, IsHeader
  <2>5. From(file, {source.version})
    <3> SUFFICES ASSUME NEW i \in DOMAIN file, "of" \in DOMAIN file[i] PROVE file[i].of = 1
      BY <1>2 DEF From
    <3>1. i \in 1 .. Parts[1] + 1 /\ i # 1
      <4>1. DOMAIN file = 1 .. Len(file)
        BY <2>1, Indexed
      <4>2. i # 1
        BY <2>2, Cells DEF IsHeader
      <4>. QED
        BY <2>1, <4>1, <4>2
    <3>2. i - 1 \in 1 .. Parts[1] /\ i = (i - 1) + 1
      BY <2>2, <3>1
    <3>3. file[i] = Part(1, i - 1)
      BY <2>1, <3>2
    <3>. QED
      BY <3>3, Cells
  <2>. QED
    BY <1>1, <1>2, <1>3, <2>2, <2>3, <2>4, <2>5
<1>6. ASSUME NEW n \in {0, 1}, exists = TRUE, file = Whole(1, 1, TRUE, n)
      PROVE  /\ Typed /\ \E v \in Versions : Plain(v) \/ Signed(v)
             /\ HeaderOf(file).timestamp = source.mtime
             /\ From(file, {source.version}) /\ source.mtime = 1
  <2>1. /\ IsSeq(file) /\ Len(file) = Parts[1] + 1 + n /\ file[1] = SignedHeader(1, 1, n)
        /\ \A i \in 1 .. Parts[1] : file[i + 1] = Part(1, i)
        /\ n = 1 => file[Parts[1] + 2] = Signature(Stream(1))
    BY <1>1, <1>6, SignedSeq
  <2>2. IsHeader(file[1]) /\ file[1].timestamp = 1 /\ Parts[1] \in Nat \ {0}
    BY <1>1, <2>1, VersionHeader, StreamSeq
  <2>3. Signed(1)
    BY <2>1, <2>2 DEF Signed, SignedBy, HasStream
  <2>4. TypedFile /\ HeaderOf(file) = file[1]
    BY <1>6, <2>1, <2>2 DEF TypedFile, HeaderOf, IsHeader
  <2>5. From(file, {source.version})
    <3> SUFFICES ASSUME NEW i \in DOMAIN file, "of" \in DOMAIN file[i] PROVE file[i].of = 1
      BY <1>2 DEF From
    <3>0. i \in 1 .. Parts[1] + 1 + n
      <4>1. DOMAIN file = 1 .. Len(file)
        BY <2>1, Indexed
      <4>. QED
        BY <2>1, <4>1
    <3>1. i # 1 /\ i \in 1 .. Parts[1] + 1
      <4>1. i # 1
        BY <2>2, Cells DEF IsHeader
      <4>2. n = 1 => i # Parts[1] + 2
        BY <2>1, Cells
      <4>. QED
        BY <2>2, <3>0, <4>1, <4>2
    <3>2. i - 1 \in 1 .. Parts[1] /\ i = (i - 1) + 1
      BY <2>2, <3>1
    <3>3. file[i] = Part(1, i - 1)
      BY <2>1, <3>2
    <3>. QED
      BY <3>3, Cells
  <2>. QED
    BY <1>1, <1>2, <1>3, <2>2, <2>3, <2>4, <2>5
<1>. QED
  <2>1. CASE exists = TRUE
    <3>1. PICK signed \in BOOLEAN, n \in {0, 1} : file = Whole(1, 1, signed, n)
      BY <1>2, <2>1 DEF Init
    <3>. QED
      BY <2>1, <3>1, <1>5, <1>6
  <2>. QED
    BY <1>2, <1>4, <2>1 DEF Init

\* A process never reads more parts than the header says or the buffer has room for, and
\* the file is there when something is in it.
THEOREM CacheType == Spec => []TypeOK
<1>1. Init => Typed
  BY InitTyped
<1>2. Typed => TypeOK
  <2> SUFFICES ASSUME Typed PROVE TypeOK
    OBVIOUS
  <2>1. Limits["events"] \in Nat /\ counts["events"] \in Nat /\ source.mtime \in Nat \ {0}
    BY CacheAssumption DEF Typed
  <2>2. source.mtime \in 1 .. Limits.events + 1
    BY <2>1 DEF Typed
  <2>3. source \in [version : Versions, mtime : 1 .. Limits.events + 1]
    BY <2>2 DEF Typed
  <2>. QED
    BY <2>3 DEF Typed, TypedProc, TypedFile, TypeOK
<1>. QED
  BY <1>1, <1>2, NextTyped, PTL DEF Spec

\* What is run is the bytecode of a version: whatever crashes, full disks and two writers
\* at a time have left in the file.
THEOREM RunsWholeSafety == Spec => []RunsWhole
<1>1. Init => Typed
  BY InitTyped
<1>2. Typed => RunsWhole
  BY DEF Typed, TypedProc, RunsWhole
<1>. QED
  BY <1>1, <1>2, NextTyped, PTL DEF Spec

-----------------------------------------------------------------------------
(* Freshness.                                                              *)

\* Of which versions the parts of a file are that was written to, and what is read of it.
LEMMA FromWritten ==
  ASSUME NEW f, IsSeq(f), NEW V, From(f, V), NEW pos \in Nat \ {0}, NEW x,
         "of" \in DOMAIN x => x.of \in V
  PROVE  From(WriteAt(f, pos, x), V)
<1> DEFINE t == WriteAt(f, pos, x)
<1>1. /\ IsSeq(t) /\ \A i \in 1 .. Len(t) : t[i] = IF i = pos THEN x ELSE At(f, i)
  BY WriteSeq
<1> HIDE DEF t
<1> SUFFICES ASSUME NEW i \in DOMAIN t, "of" \in DOMAIN t[i] PROVE t[i].of \in V
  BY DEF From, t
<1>2. i \in 1 .. Len(t)
  BY <1>1, Indexed
<1>. QED
  BY <1>1, <1>2, Cells DEF From, At

\* What is cut off, or filled with holes, adds no part.
LEMMA FromCut ==
  ASSUME NEW f, NEW V, From(f, V), NEW n \in Nat
  PROVE  From(Cut(f, n), V)
<1> DEFINE t == Cut(f, n)
<1>1. IsSeq(t) /\ Len(t) = n /\ \A i \in 1 .. n : t[i] = At(f, i)
  BY CutSeq
<1> HIDE DEF t
<1> SUFFICES ASSUME NEW i \in DOMAIN t, "of" \in DOMAIN t[i] PROVE t[i].of \in V
  BY DEF From, t
<1>2. i \in 1 .. n
  BY <1>1, Indexed
<1>. QED
  BY <1>1, <1>2, Cells DEF From, At

\* Nor does a part that is read of the file, or not there.
LEMMA FromRead ==
  ASSUME NEW s, IsSeq(s), NEW V, From(s, V), From(file, V), NEW k
  PROVE  From(Append(s, At(file, k)), V)
<1> DEFINE x == At(file, k)
           t == Append(s, x)
<1>1. "of" \in DOMAIN x => x.of \in V
  BY Cells DEF From, At
<1> HIDE DEF x
<1>2. /\ IsSeq(t) /\ Len(t) = Len(s) + 1
      /\ \A i \in 1 .. Len(s) : t[i] = s[i]
      /\ t[Len(s) + 1] = x
  BY AppendSeq
<1>3. Len(s) \in Nat /\ DOMAIN s = 1 .. Len(s)
  BY Indexed
<1> HIDE DEF t
<1>4. DOMAIN t = 1 .. Len(s) + 1
  BY <1>2, Indexed
<1> SUFFICES ASSUME NEW i \in DOMAIN t, "of" \in DOMAIN t[i] PROVE t[i].of \in V
  BY DEF From, t, x
<1>5. i = Len(s) + 1 \/ i \in DOMAIN s
  BY <1>3, <1>4
<1>. QED
  BY <1>1, <1>2, <1>3, <1>5 DEF From

\* What is empty has no part.
LEMMA FromNothing == \A V : From(<<>>, V)
  BY Empty, Indexed DEF From

\* Parts of some versions are of more, too.
LEMMA FromMore ==
  ASSUME NEW s, NEW V, From(s, V), NEW W, V \subseteq W
  PROVE  From(s, W)
  BY DEF From

\* A header that is read was in use.
LEMMA HeadersInUse ==
  ASSUME Typed, NEW p \in Procs, proc[p].pc # "trunc", NEW h \in Headers(p)
  PROVE  h.timestamp = 0 \/ InUse(h.timestamp)
  BY HeadersRead, Cells DEF InUse

\* What is in use is not later than the source.
LEMMA UsedBefore ==
  ASSUME Typed, FreshInv, ~careless, NEW t, InUse(t)
  PROVE  t <= source.mtime
  BY DEF FreshInv, FreshProc, FreshWith, InUse

\* What is left to show of a step that changes one process: no header comes into use,
\* but the one that empties the file, and parts are written of the source as it is.
LEMMA OneFresh ==
  ASSUME Typed, FreshInv, NEW p \in Procs, DOMAIN proc' = Procs,
         \A q \in Procs \ {p} : proc'[q] = proc[q],
         UNCHANGED <<source, careless>>,
         ~careless =>
           LET s == proc'[p]
           IN /\ \A V : From(file, V) /\ source.version \in V => From(file', V)
              /\ \/ file' = <<>>
                 \/ HeaderOf(file').timestamp = 0
                 \/ InUse(HeaderOf(file').timestamp)
              /\ \/ file' = <<>> \/ s.pc = "trunc"
                 \/ s.header.timestamp = 0
                 \/ InUse(s.header.timestamp)
              /\ FreshWith(s, file')
              /\ s.pc = "look" => s.mtime \in Nat \ {0}
              /\ s.pc = "look" /\ InUse(s.mtime) => From(file', s.since)
  PROVE  FreshInv'
<1> SUFFICES ASSUME ~careless
             PROVE  /\ file' # <<>> => HeaderOf(file').timestamp <= source'.mtime
                    /\ InUse(source.mtime)' => From(file', {source'.version})
                    /\ \A q \in Procs : FreshProc(proc[q])'
  BY DEF FreshInv
<1>0. source.mtime \in Nat \ {0}
  BY DEF Typed
<1>1. /\ \A V : From(file, V) /\ source.version \in V => From(file', V)
      /\ FreshWith(proc'[p], file')
      /\ InUse(source.mtime) => From(file, {source.version})
      /\ \A q \in Procs : FreshProc(proc[q])
  BY DEF FreshInv
<1>2. ASSUME NEW t \in Nat \ {0}, InUse(t)' PROVE file' = <<>> \/ InUse(t)
  <2>1. CASE file' # <<>> /\ HeaderOf(file').timestamp = t
    BY <2>1
  <2>2. ASSUME NEW q \in Procs, proc'[q].pc # "trunc", proc'[q].header.timestamp = t
        PROVE  file' = <<>> \/ InUse(t)
    <3>1. CASE q = p
      BY <2>2, <3>1
    <3>2. CASE q # p
      BY <2>2, <3>2 DEF InUse
    <3>. QED
      BY <3>1, <3>2
  <2>. QED
    BY <1>2, <2>1, <2>2 DEF InUse
<1>3. file' # <<>> => HeaderOf(file').timestamp <= source'.mtime
  BY <1>0, UsedBefore
<1>4. ASSUME InUse(source.mtime)' PROVE From(file', {source'.version})
  <2>1. source' = source
    OBVIOUS
  <2>2. file' = <<>> \/ InUse(source.mtime)
    BY <1>0, <1>2, <1>4, <2>1
  <2>. QED
    BY <1>1, <2>1, <2>2, FromNothing
<1>5. ASSUME NEW q \in Procs \ {p} PROVE FreshProc(proc[q])'
  <2> DEFINE r == proc[q]
  <2>1. proc'[q] = r /\ source' = source /\ TypedProc(r) /\ FreshWith(r, file)
    BY <1>1, <1>5 DEF Typed, FreshProc
  <2>2. r.cmd = "exec" => source.version \in r.since
    BY <2>1 DEF FreshWith
  <2>3. r.pc \in Reading => r.cmd = "exec" /\ (From(file, r.since) => From(file', r.since))
    BY <1>1, <2>1, <2>2 DEF TypedProc
  <2>4. FreshWith(r, file')
    BY <2>1, <2>3 DEF FreshWith, Reading
  <2>5. FreshWith(proc[q], file)'
    BY <2>1, <2>4 DEF FreshWith
  <2>6. ASSUME r.pc = "look", InUse(r.mtime)' PROVE From(file', r.since)
    <3>1. r.mtime \in Nat \ {0}
      BY <2>1, <2>6 DEF TypedProc, Typed
    <3>2. file' = <<>> \/ InUse(r.mtime)
      BY <1>2, <2>1, <2>6, <3>1
    <3>3. InUse(r.mtime) => From(file, r.since)
      BY <1>1, <1>5, <2>6 DEF FreshProc
    <3>. QED
      BY <2>3, <2>6, <3>2, <3>3, FromNothing DEF Reading
  <2>. QED
    BY <2>1, <2>5, <2>6 DEF FreshProc
<1>6. FreshProc(proc[p])'
  <2> DEFINE s == proc'[p]
  <2>1. FreshWith(proc[p], file)'
    BY <1>1 DEF FreshWith
  <2>2. ASSUME s.pc = "look", InUse(proc[p].mtime)' PROVE From(file', s.since)
    BY <1>2, <2>2, FromNothing
  <2>. QED
    BY <2>1, <2>2 DEF FreshProc
<1>. QED
  BY <1>3, <1>4, <1>5, <1>6

\* A step that writes nothing to the file.
LEMMA FreshSimple ==
  ASSUME Typed, FreshInv, NEW p \in Procs,
         \/ Exec(p) \/ Look(p) \/ LoadValid(p) \/ LoadHeader(p) \/ ReadPart(p) \/ Run(p)
         \/ \E verify \in BOOLEAN : Load(p, verify)
         \/ \E write \in BOOLEAN : Generate(p, write)
         \/ Compile(p) \/ SaveStamp(p)
         \/ \E cmd \in {"sign", "unsign"} : Start(p, cmd)
         \/ CheckValid(p) \/ CheckSigned(p) \/ OpenForUpdate(p)
  PROVE  FreshInv'
<1> DEFINE r == proc[p]
           s == proc'[p]
           Known(t) == t = 0 \/ InUse(t)
           Rest == /\ DOMAIN proc' = Procs /\ \A q \in Procs \ {p} : proc'[q] = proc[q]
                   /\ UNCHANGED <<source, careless, file>>
<1>1. TypedProc(r) /\ source.mtime \in Nat \ {0}
  BY DEF Typed
<1>2. ASSUME Rest, s.pc = "look" => s.mtime \in Nat \ {0},
             ~careless => /\ s.pc # "trunc" => Known(s.header.timestamp)
                          /\ FreshWith(s, file)
                          /\ s.pc = "look" /\ InUse(s.mtime) => From(file, s.since)
      PROVE  FreshInv'
  <2>1. file = <<>> \/ InUse(HeaderOf(file).timestamp)
    BY DEF InUse
  <2>. QED
    BY <1>2, <2>1, OneFresh
<1>3. ASSUME GiveUp(p) PROVE FreshInv'
  <2>1. Rest /\ s = Idle
    BY <1>3, Stepped DEF GiveUp, End, World
  <2>2. s.pc = "idle" /\ s.header.timestamp = 0 /\ s.cmd # "exec"
    BY <2>1, Cells DEF Idle, None
  <2>3. FreshWith(s, file)
    BY <1>1, <2>2 DEF FreshWith, Saving
  <2>. QED
    BY <1>2, <2>1, <2>2, <2>3
<1>4. ASSUME NEW next, Only(p, next) \/ Command(p, next) PROVE Rest /\ s = next
  BY <1>4, Stepped DEF Only, Command, World
<1>5. ~careless => /\ FreshWith(r, file)
                   /\ r.pc = "look" /\ InUse(r.mtime) => From(file, r.since)
                   /\ InUse(source.mtime) => From(file, {source.version})
  BY DEF FreshInv, FreshProc
<1>6. r.pc # "trunc" => InUse(r.header.timestamp)
  BY DEF InUse
<1>7. ASSUME ~careless, r.pc # "trunc", NEW h \in Headers(p)
      PROVE  Known(h.timestamp) /\ h.timestamp <= source.mtime
  BY <1>1, <1>7, HeadersInUse, UsedBefore
<1> HIDE DEF Known
<1>8. CASE Exec(p)
  <2>1. /\ Rest /\ r.pc = "idle"
        /\ s = [r EXCEPT !.pc = "look", !.cmd = "exec",
                         !.mtime = source.mtime, !.since = {source.version}]
    BY <1>4, <1>8 DEF Exec, Command
  <2>2. /\ s.pc = "look" /\ s.mtime = source.mtime /\ s.since = {source.version}
        /\ s.header = r.header /\ Known(s.header.timestamp)
    BY <1>1, <1>6, <2>1 DEF TypedProc, Idle, Known
  <2>3. ~careless => FreshWith(s, file)
    BY <1>5, <2>2 DEF FreshWith, Saving
  <2>. QED
    BY <1>1, <1>2, <1>5, <2>1, <2>2, <2>3
<1>9. CASE Look(p)
  <2>1. r.pc = "look" /\ r.parts = <<>>
    BY <1>1, <1>9 DEF Look, TypedProc
  <2>2. \/ Only(p, [r EXCEPT !.pc = "generate", !.mtime = 0])
        \/ \E h \in Headers(p) : /\ h.timestamp = r.mtime
                                 /\ Only(p, [r EXCEPT !.pc = "valid", !.header = h, !.mtime = 0])
        \/ file = <<>> /\ Only(p, [r EXCEPT !.pc = "valid", !.header = r.header, !.mtime = 0])
    BY <1>9 DEF Look
  <2>3. CASE Only(p, [r EXCEPT !.pc = "generate", !.mtime = 0])
    <3>1. Rest /\ s = [r EXCEPT !.pc = "generate", !.mtime = 0]
      BY <1>4, <2>3
    <3>2. /\ s.pc = "generate" /\ s.header = r.header /\ s.cmd = r.cmd /\ s.since = r.since
          /\ Known(s.header.timestamp)
      BY <1>1, <1>6, <2>1, <3>1 DEF TypedProc, Idle, Known
    <3>3. ~careless => FreshWith(s, file)
      BY <1>5, <3>2 DEF FreshWith, Saving
    <3>. QED
      BY <1>2, <3>1, <3>2, <3>3
  <2>4. ASSUME NEW h, Only(p, [r EXCEPT !.pc = "valid", !.header = h, !.mtime = 0]),
               ~careless => /\ Known(h.timestamp) /\ h.timestamp <= source.mtime
                            /\ From(file, r.since)
        PROVE  FreshInv'
    <3>1. Rest /\ s = [r EXCEPT !.pc = "valid", !.header = h, !.mtime = 0]
      BY <1>4, <2>4
    <3>2. /\ s.pc = "valid" /\ s.header = h /\ s.cmd = r.cmd /\ s.since = r.since
          /\ s.parts = <<>>
      BY <1>1, <2>1, <3>1 DEF TypedProc, Idle
    <3>3. ~careless => FreshWith(s, file)
      BY <1>5, <2>4, <3>2, FromNothing DEF FreshWith, Saving
    <3>. QED
      BY <1>2, <2>4, <3>1, <3>2, <3>3
  <2>5. ASSUME NEW h \in Headers(p), h.timestamp = r.mtime, ~careless PROVE From(file, r.since)
    BY <1>5, <2>1, <2>5, HeadersRead, FromNothing DEF InUse
  <2>6. ~careless => Known(r.header.timestamp) /\ r.header.timestamp <= source.mtime
    BY <1>5, <1>6, <2>1 DEF Known, FreshWith
  <2>. QED
    BY <1>7, <2>1, <2>2, <2>3, <2>4, <2>5, <2>6, FromNothing
<1>10. CASE LoadValid(p)
  <2>1. r.pc = "valid" /\ r.parts = <<>>
    BY <1>1, <1>10 DEF LoadValid, TypedProc
  <2>2. ASSUME NEW h \in Headers(p), Only(p, [r EXCEPT !.pc = "load", !.header = h])
        PROVE  FreshInv'
    <3>1. Rest /\ s = [r EXCEPT !.pc = "load", !.header = h]
      BY <1>4, <2>2
    <3>2. /\ s.pc = "load" /\ s.header = h /\ s.cmd = r.cmd /\ s.since = r.since
          /\ s.parts = r.parts
      BY <1>1, <3>1 DEF TypedProc, Idle
    <3>3. ~careless => FreshWith(s, file)
      BY <1>5, <1>7, <2>1, <3>2 DEF FreshWith, Saving
    <3>. QED
      BY <1>2, <1>7, <2>1, <3>1, <3>2, <3>3
  <2>. QED
    BY <1>3, <1>10, <2>2 DEF LoadValid
<1>11. CASE LoadHeader(p)
  <2>1. r.pc = "load" /\ (Len(file) > 0 => HeaderOf(file) \in Headers(p))
    BY <1>11 DEF LoadHeader, Headers
  <2>2. CASE /\ Len(file) > 0
             /\ Only(p, [r EXCEPT !.pc = "read", !.header = HeaderOf(file), !.parts = <<>>])
    <3>1. Rest /\ s = [r EXCEPT !.pc = "read", !.header = HeaderOf(file), !.parts = <<>>]
      BY <1>4, <2>2
    <3>2. /\ s.pc = "read" /\ s.header = HeaderOf(file) /\ s.cmd = r.cmd /\ s.since = r.since
          /\ s.parts = <<>>
      BY <1>1, <3>1 DEF TypedProc, Idle
    <3>3. ~careless => Known(s.header.timestamp) /\ s.header.timestamp <= source.mtime
      BY <1>7, <2>1, <2>2, <3>2
    <3>4. ~careless => FreshWith(s, file)
      BY <1>5, <2>1, <3>2, <3>3, FromNothing DEF FreshWith, Saving
    <3>. QED
      BY <1>2, <3>1, <3>2, <3>3, <3>4
  <2>. QED
    BY <1>3, <1>11, <2>2 DEF LoadHeader
<1>12. CASE ReadPart(p)
  <2> DEFINE parts == Append(r.parts, At(file, Len(r.parts) + 2))
  <2>1. r.pc \in {"read", "sign_read"} /\ Rest /\ s = [r EXCEPT !.parts = parts]
    BY <1>4, <1>12 DEF ReadPart
  <2>2. /\ s.pc = r.pc /\ s.header = r.header /\ s.cmd = r.cmd /\ s.since = r.since
        /\ s.parts = parts
    BY <1>1, <2>1 DEF TypedProc, Idle
  <2>3. IsSeq(r.parts)
    BY <1>1 DEF TypedProc
  <2>4. ~careless /\ r.pc = "read" => From(file, r.since) /\ From(r.parts, r.since)
    BY <1>5 DEF FreshWith
  <2>5. ~careless /\ r.pc = "read" => From(parts, r.since)
    BY <2>3, <2>4, FromRead
  <2> HIDE DEF parts
  <2>6. ~careless => FreshWith(s, file)
    BY <1>5, <2>1, <2>2, <2>4, <2>5 DEF FreshWith, Saving
  <2>7. Known(s.header.timestamp) /\ s.pc # "look"
    BY <1>6, <2>1, <2>2 DEF Known
  <2>. QED
    BY <1>2, <2>1, <2>6, <2>7
<1>13. CASE Run(p)
  BY <1>3, <1>13 DEF Run
<1>14. ASSUME NEW verify, Load(p, verify) PROVE FreshInv'
  <2>1. r.pc = "read" /\ IsSeq(r.parts)
    BY <1>1, <1>14 DEF Load, TypedProc
  <2>2. ASSUME NEW v \in bzip2_decompress(r.parts), Only(p, [r EXCEPT !.pc = "run", !.version = v])
        PROVE  FreshInv'
    <3>1. Rest /\ s = [r EXCEPT !.pc = "run", !.version = v]
      BY <1>4, <2>2
    <3>2. /\ s.pc = "run" /\ s.header = r.header /\ s.cmd = r.cmd /\ s.since = r.since
          /\ s.version = v
      BY <1>1, <3>1 DEF TypedProc, Idle
    <3>3. 1 \in DOMAIN r.parts /\ r.parts[1] = Part(v, 1)
      BY <2>1, <2>2, Decompressed
    <3>4. ~careless => v \in r.since
      BY <1>5, <2>1, <3>3, Cells DEF FreshWith, From
    <3>5. ~careless => FreshWith(s, file)
      BY <1>5, <3>2, <3>4 DEF FreshWith, Saving
    <3>6. Known(s.header.timestamp) /\ s.pc # "look"
      BY <1>6, <2>1, <3>2 DEF Known
    <3>. QED
      BY <1>2, <3>1, <3>5, <3>6
  <2>. QED
    BY <1>3, <1>14, <2>2 DEF Load
<1>15. ASSUME NEW write, Generate(p, write) PROVE FreshInv'
  <2>1. /\ r.pc = "generate" /\ r.cmd = "exec" /\ Rest
        /\ s = [r EXCEPT !.pc = IF write THEN "stamp" ELSE "run", !.version = source.version]
    BY <1>1, <1>4, <1>15 DEF Generate, TypedProc, Reading
  <2>2. /\ s.pc \in {"stamp", "run"} /\ s.header = r.header /\ s.cmd = r.cmd /\ s.since = r.since
        /\ s.version = source.version
    BY <1>1, <2>1 DEF TypedProc, Idle
  <2>3. ~careless => FreshWith(s, file)
    BY <1>5, <2>1, <2>2 DEF FreshWith, Saving
  <2>4. Known(s.header.timestamp) /\ s.pc # "look"
    BY <1>6, <2>1, <2>2 DEF Known
  <2>. QED
    BY <1>2, <2>1, <2>3, <2>4
<1>16. CASE Compile(p)
  <2>1. /\ r.pc = "idle" /\ Rest
        /\ s = [r EXCEPT !.pc = "stamp", !.cmd = "compile", !.version = source.version]
    BY <1>4, <1>16 DEF Compile, Command
  <2>2. s.pc = "stamp" /\ s.header = r.header /\ s.cmd = "compile" /\ s.version = source.version
    BY <1>1, <2>1 DEF TypedProc, Idle
  <2>3. ~careless => FreshWith(s, file)
    BY <1>5, <2>1, <2>2 DEF FreshWith, Saving
  <2>4. Known(s.header.timestamp) /\ s.pc # "look"
    BY <1>6, <2>1, <2>2 DEF Known
  <2>. QED
    BY <1>2, <2>1, <2>3, <2>4
<1>17. CASE SaveStamp(p)
  <2>1. /\ r.pc = "stamp" /\ r.version \in Versions /\ Rest
        /\ s = [r EXCEPT !.pc = "trunc", !.header = Header(r.version, source.mtime)]
    BY <1>1, <1>4, <1>17 DEF SaveStamp, TypedProc, Saving
  <2>2. /\ s.pc = "trunc" /\ s.header = Header(r.version, source.mtime) /\ s.cmd = r.cmd
        /\ s.version = r.version /\ s.since = r.since
    BY <1>1, <2>1 DEF TypedProc, Idle
  <2>3. s.header.timestamp = source.mtime
    BY <1>1, <2>1, <2>2, VersionHeader
  <2>4. ~careless => FreshWith(s, file)
    BY <1>1, <1>5, <2>1, <2>2, <2>3 DEF FreshWith, Saving
  <2>. QED
    BY <1>2, <2>1, <2>2, <2>4
<1>18. ASSUME NEW cmd \in {"sign", "unsign"}, Start(p, cmd) PROVE FreshInv'
  <2>1. r.pc = "idle" /\ Rest /\ s = [r EXCEPT !.pc = "check", !.cmd = cmd]
    BY <1>4, <1>18 DEF Start, Command
  <2>2. s.pc = "check" /\ s.header = r.header /\ s.cmd = cmd
    BY <1>1, <2>1 DEF TypedProc, Idle
  <2>3. ~careless => FreshWith(s, file)
    BY <1>5, <1>18, <2>1, <2>2 DEF FreshWith, Saving
  <2>4. Known(s.header.timestamp) /\ s.pc # "look"
    BY <1>6, <2>1, <2>2 DEF Known
  <2>. QED
    BY <1>2, <2>1, <2>3, <2>4
<1>19. ASSUME NEW h \in Headers(p), NEW pc \in {"signed", "open"}, r.pc \in {"check", "signed"},
              Rest, s = [r EXCEPT !.pc = pc, !.header = h]
       PROVE  FreshInv'
  <2>1. s.pc = pc /\ s.header = h /\ s.cmd = r.cmd /\ s.since = r.since
    BY <1>1, <1>19 DEF TypedProc, Idle
  <2>2. ~careless => FreshWith(s, file)
    BY <1>5, <1>7, <1>19, <2>1 DEF FreshWith, Saving
  <2>. QED
    BY <1>2, <1>7, <1>19, <2>1, <2>2
<1>20. CASE CheckValid(p)
  BY <1>3, <1>4, <1>19, <1>20 DEF CheckValid
<1>21. CASE CheckSigned(p)
  <2>1. \/ GiveUp(p)
        \/ /\ r.pc = "signed" /\ UNCHANGED <<World, file>>
           /\ \E h \in Headers(p) : Step(p, [r EXCEPT !.pc = "open", !.header = h])
    BY <1>21 DEF CheckSigned
  <2>. QED
    BY <1>3, <1>19, <2>1, Stepped DEF World
<1>22. CASE OpenForUpdate(p)
  <2>1. PICK h \in Headers(p), pc \in {"unsign_cut", "sign_read"} :
           /\ r.pc = "open" /\ Rest
           /\ s = [r EXCEPT !.pc = pc, !.header = h, !.parts = <<>>]
    BY <1>4, <1>22 DEF OpenForUpdate
  <2>2. s.pc = pc /\ s.header = h /\ s.cmd = r.cmd /\ s.since = r.since
    BY <1>1, <2>1 DEF TypedProc, Idle
  <2>3. ~careless => FreshWith(s, file)
    BY <1>5, <1>7, <2>1, <2>2 DEF FreshWith, Saving
  <2>. QED
    BY <1>2, <1>7, <2>1, <2>2, <2>3
<1>. QED
  BY <1>8, <1>9, <1>10, <1>11, <1>12, <1>13, <1>14, <1>15, <1>16, <1>17, <1>18, <1>20, <1>21, <1>22

\* A step that writes a bytecode file.
LEMMA FreshSave ==
  ASSUME Typed, FreshInv, NEW p \in Procs, SaveOpen(p) \/ SavePart(p) \/ SaveHeader(p)
  PROVE  FreshInv'
<1> DEFINE r == proc[p]
           s == proc'[p]
           Rest == /\ DOMAIN proc' = Procs /\ \A q \in Procs \ {p} : proc'[q] = proc[q]
                   /\ UNCHANGED <<source, careless>>
<1>1. TypedProc(r) /\ source.mtime \in Nat \ {0} /\ IsSeq(file) /\ IsHeader(r.header)
  BY DEF Typed, TypedFile, TypedProc
<1>2. ~careless => FreshWith(r, file)
  BY DEF FreshInv, FreshProc
<1>3. r.pc # "trunc" => InUse(r.header.timestamp)
  BY DEF InUse
<1>4. file = <<>> \/ InUse(HeaderOf(file).timestamp)
  BY DEF InUse
<1>5. ASSUME r.pc \in {"trunc", "finish"}, NEW next \in Saved(p)
      PROVE  /\ next.header.timestamp = 0 /\ next.pc # "look"
             /\ \A f : ~careless => FreshWith(next, f)
  <2>1. /\ next.header = Garbage
        /\ next = Idle \/ /\ next.pc \in {"run", "signed"} /\ next.cmd = r.cmd
                          /\ next.version = r.version /\ next.since = r.since
    BY <1>5, AfterSaving
  <2>2. next.header.timestamp = 0
    BY <2>1, Cells
  <2>3. CASE next = Idle
    <3>1. next.pc = "idle" /\ next.cmd # "exec"
      BY <2>3 DEF Idle, None
    <3>. QED
      BY <1>1, <2>2, <3>1 DEF FreshWith, Saving
  <2>4. CASE next # Idle
    BY <1>1, <1>2, <1>5, <2>1, <2>2, <2>4 DEF FreshWith, Saving
  <2>. QED
    BY <2>2, <2>3, <2>4
<1>6. CASE SaveOpen(p)
  <2>1. r.pc = "trunc"
    BY <1>6 DEF SaveOpen
  <2>2. CASE Step(p, [r EXCEPT !.pc = "write", !.parts = <<>>]) /\ file' = <<>> /\ UNCHANGED World
    <3>1. Rest /\ s = [r EXCEPT !.pc = "write", !.parts = <<>>]
      BY <2>2, Stepped DEF World
    <3>2. /\ s.pc = "write" /\ s.header = r.header /\ s.cmd = r.cmd /\ s.since = r.since
          /\ s.version = r.version
      BY <1>1, <3>1 DEF TypedProc, Idle
    <3>3. ~careless => FreshWith(s, file')
      BY <1>2, <2>1, <3>2 DEF FreshWith, Saving
    <3>. QED
      BY <2>2, <3>1, <3>2, <3>3, FromNothing, OneFresh
  <2>3. CASE /\ \E next \in Saved(p) : proc' = [proc EXCEPT ![p] = next]
             /\ UNCHANGED <<source, careless, file>>
    <3>1. PICK next \in Saved(p) : Step(p, next)
      BY <2>3 DEF Step
    <3>2. Rest /\ s = next /\ file' = file
      BY <2>3, <3>1, Stepped
    <3>3. /\ s.header.timestamp = 0 /\ s.pc # "look"
          /\ ~careless => FreshWith(s, file')
      BY <1>5, <2>1, <3>2
    <3>. QED
      BY <1>4, <3>2, <3>3, OneFresh
  <2>. QED
    BY <1>6, <2>2, <2>3 DEF SaveOpen
<1>7. CASE SavePart(p)
  <2> DEFINE n == Len(r.parts) + 1
             x == Part(r.version, n)
             base == IF n = 1 THEN WriteAt(file, 1, Garbage) ELSE file
             written == WriteAt(base, n + 1, x)
             pc == IF n = r.header.len THEN "finish" ELSE "write"
             parts == Append(r.parts, x)
  <2>1. /\ r.pc = "write" /\ Step(p, [r EXCEPT !.pc = pc, !.parts = parts])
        /\ UNCHANGED <<source, careless>> /\ file' \in {written, file}
    <3>1. /\ r.pc = "write" /\ Step(p, [r EXCEPT !.pc = pc, !.parts = parts])
          /\ Write(written)
      BY <1>7 DEF SavePart
    <3> HIDE DEF written, r
    <3>. QED
      BY <3>1, Wrote
  <2>2. Rest /\ s = [r EXCEPT !.pc = pc, !.parts = parts]
    BY <2>1, Stepped
  <2>3. n \in Nat \ {0} /\ n + 1 \in Nat \ {0} /\ n + 1 # 1
    BY <1>1, Indexed DEF TypedProc
  <2>4. /\ s.pc \in {"write", "finish"} /\ s.header = r.header /\ s.cmd = r.cmd /\ s.since = r.since
        /\ s.version = r.version /\ InUse(s.header.timestamp)
    BY <1>1, <1>3, <2>1, <2>2 DEF TypedProc, Idle
  <2> HIDE DEF parts, pc, n
  <2>5. /\ IsSeq(base)
        /\ base = <<>> \/ HeaderOf(base).timestamp = 0 \/ InUse(HeaderOf(base).timestamp)
    BY <1>1, <1>4, HeaderWritten, Cells
  <2>6. ASSUME NEW V, From(file, V) PROVE From(base, V)
    BY <1>1, <2>6, FromWritten, Cells
  <2> HIDE DEF base
  <2>7. HeaderOf(written).timestamp = 0 \/ InUse(HeaderOf(written).timestamp)
    BY <2>3, <2>5, HeaderWritten, Cells
  <2>8. ~careless => r.version = source.version
    BY <1>2, <2>1 DEF FreshWith, Saving
  <2>9. ASSUME ~careless, NEW V, From(file, V), source.version \in V PROVE From(file', V)
    <3>1. From(written, V)
      BY <2>3, <2>5, <2>6, <2>8, <2>9, FromWritten, Cells
    <3>. QED
      BY <2>1, <2>9, <3>1
  <2>10. ~careless => FreshWith(s, file')
    BY <1>2, <2>1, <2>4 DEF FreshWith, Saving
  <2>11. file' = <<>> \/ HeaderOf(file').timestamp = 0 \/ InUse(HeaderOf(file').timestamp)
    BY <1>4, <2>1, <2>7
  <2> HIDE DEF written, x
  <2>. QED
    BY <2>2, <2>4, <2>9, <2>10, <2>11, OneFresh
<1>8. CASE SaveHeader(p)
  <2>1. PICK next \in Saved(p) : Step(p, next)
    BY <1>8 DEF SaveHeader, Step
  <2> DEFINE f == WriteAt(file, 1, r.header)
  <2>2. r.pc = "finish" /\ file' \in {f, file} /\ UNCHANGED <<source, careless>>
    BY <1>8, Wrote DEF SaveHeader
  <2>3. Rest /\ s = next
    BY <2>1, <2>2, Stepped
  <2>4. /\ s.header.timestamp = 0 /\ s.pc # "look"
        /\ ~careless => FreshWith(s, file')
    BY <1>5, <2>2, <2>3
  <2>5. HeaderOf(f) = r.header
    BY <1>1, HeaderWritten
  <2>6. \A V : From(file, V) => From(f, V)
    BY <1>1, FromWritten, Cells DEF IsHeader
  <2> HIDE DEF f
  <2>7. \A V : From(file, V) => From(file', V)
    BY <2>2, <2>6
  <2>8. file' = <<>> \/ InUse(HeaderOf(file').timestamp)
    BY <1>3, <1>4, <2>2, <2>5
  <2>. QED
    BY <2>3, <2>4, <2>7, <2>8, OneFresh
<1>. QED
  BY <1>6, <1>7, <1>8

\* A step that writes or takes away a signature.
LEMMA FreshSign ==
  ASSUME Typed, FreshInv, NEW p \in Procs,
         SignHeader(p) \/ SignTail(p) \/ UnsignCut(p) \/ UnsignHeader(p)
  PROVE  FreshInv'
<1> DEFINE r == proc[p]
           s == proc'[p]
           Rest == /\ DOMAIN proc' = Procs /\ \A q \in Procs \ {p} : proc'[q] = proc[q]
                   /\ UNCHANGED <<source, careless>>
<1>1. TypedProc(r) /\ source.mtime \in Nat \ {0} /\ IsSeq(file) /\ Len(file) \in Nat /\ IsHeader(r.header)
  BY Indexed DEF Typed, TypedFile, TypedProc
<1>2. ~careless => FreshWith(r, file)
  BY DEF FreshInv, FreshProc
<1>3. r.pc # "trunc" => InUse(r.header.timestamp)
  BY DEF InUse
<1>4. file = <<>> \/ InUse(HeaderOf(file).timestamp)
  BY DEF InUse
<1>5. ASSUME Rest, r.pc # "trunc",
             \/ s = Idle
             \/ /\ s.pc \in {"sign_tail", "unsign_head"} /\ s.cmd = r.cmd /\ s.since = r.since
                /\ s.header.timestamp = r.header.timestamp,
             NEW f, file' \in {f, file}, \A V : From(file, V) => From(f, V),
             \/ f = <<>>
             \/ HeaderOf(f).timestamp = 0
             \/ InUse(HeaderOf(f).timestamp)
      PROVE  FreshInv'
  <2>0. /\ \A V : From(file, V) => From(file', V)
        /\ \/ file' = <<>>
           \/ HeaderOf(file').timestamp = 0
           \/ InUse(HeaderOf(file').timestamp)
    BY <1>4, <1>5
  <2>1. CASE s = Idle
    <3>1. s.pc = "idle" /\ s.cmd # "exec" /\ s.header.timestamp = 0
      BY <2>1, Cells DEF Idle, None
    <3>2. FreshWith(s, file')
      BY <1>1, <3>1 DEF FreshWith, Saving
    <3>. QED
      BY <1>5, <2>0, <3>1, <3>2, OneFresh
  <2>2. CASE /\ s.pc \in {"sign_tail", "unsign_head"} /\ s.cmd = r.cmd /\ s.since = r.since
             /\ s.header.timestamp = r.header.timestamp
    <3>1. ~careless => FreshWith(s, file')
      BY <1>2, <2>2 DEF FreshWith, Saving
    <3>. QED
      BY <1>3, <1>5, <2>0, <2>2, <3>1, OneFresh
  <2>. QED
    BY <1>5, <2>1, <2>2
<1>6. CASE SignHeader(p)
  <2>0. PICK n \in {0, 1} :
        LET h == [r.header EXCEPT !.signed = TRUE, !.signature = Len(file), !.signature_len = n]
        IN /\ Step(p, [r EXCEPT !.pc = "sign_tail", !.header = h])
           /\ Write(WriteAt(file, 1, h))
    BY <1>6 DEF SignHeader
  <2> DEFINE h == [r.header EXCEPT !.signed = TRUE, !.signature = Len(file), !.signature_len = n]
             f == WriteAt(file, 1, h)
  <2>1. /\ r.pc = "sign_read" /\ Step(p, [r EXCEPT !.pc = "sign_tail", !.header = h])
        /\ file' \in {f, file} /\ UNCHANGED <<source, careless>>
    <3>1. r.pc = "sign_read" /\ Step(p, [r EXCEPT !.pc = "sign_tail", !.header = h]) /\ Write(f)
      BY <1>6, <2>0 DEF SignHeader
    <3> HIDE DEF f, h, r
    <3>. QED
      BY <3>1, Wrote
  <2>2. Rest /\ s = [r EXCEPT !.pc = "sign_tail", !.header = h]
    BY <2>1, Stepped
  <2>3. IsHeader(h) /\ h.timestamp = r.header.timestamp
    BY <1>1 DEF IsHeader, Garbage
  <2> HIDE DEF h
  <2>4. s.pc = "sign_tail" /\ s.cmd = r.cmd /\ s.since = r.since /\ s.header = h
    BY <1>1, <2>2 DEF TypedProc, Idle
  <2>5. HeaderOf(f) = h /\ \A V : From(file, V) => From(f, V)
    <3>1. HeaderOf(WriteAt(file, 1, h)) = h
      BY <1>1, <2>3, HeaderWritten
    <3>2. "of" \notin DOMAIN h
      BY <2>3, Cells DEF IsHeader
    <3>3. \A V : From(file, V) => From(WriteAt(file, 1, h), V)
      BY <1>1, <3>2, FromWritten
    <3>. QED
      BY <3>1, <3>3
  <2> HIDE DEF f
  <2>. QED
    BY <1>3, <1>5, <2>1, <2>2, <2>3, <2>4, <2>5
<1>7. CASE SignTail(p)
  <2> DEFINE pos == r.header.signature + 1
             f == WriteAt(file, pos, Signature(r.parts))
  <2>1. /\ r.pc = "sign_tail" /\ Step(p, Idle)
        /\ file' \in {f, file} /\ UNCHANGED <<source, careless>>
    BY <1>7, Wrote DEF SignTail, End
  <2>2. Rest /\ s = Idle
    BY <2>1, Stepped
  <2>3. pos \in Nat \ {0}
    BY <1>1 DEF IsHeader
  <2> HIDE DEF pos
  <2>4. \/ HeaderOf(f).timestamp = 0
        \/ InUse(HeaderOf(f).timestamp)
    <3> DEFINE x == Signature(r.parts)
    <3>1. DOMAIN x # DOMAIN Garbage
      BY Cells
    <3> HIDE DEF x
    <3>2. LET t == WriteAt(file, pos, x)
          IN /\ pos = 1 \/ file = <<>> => HeaderOf(t) = Garbage
             /\ pos # 1 /\ file # <<>> => HeaderOf(t) = HeaderOf(file)
      <4>1. pos = 1 => HeaderOf(WriteAt(file, pos, x)) = Garbage
        BY <1>1, <2>3, <3>1, HeaderWritten
      <4>2. pos # 1 /\ file = <<>> => HeaderOf(WriteAt(file, pos, x)) = Garbage
        BY <1>1, <2>3, HeaderWritten
      <4>3. pos # 1 /\ file # <<>> => HeaderOf(WriteAt(file, pos, x)) = HeaderOf(file)
        BY <1>1, <2>3, HeaderWritten
      <4>. QED
        BY <4>1, <4>2, <4>3
    <3>. QED
      BY <1>4, <3>2, Cells DEF x
  <2>5. \A V : From(file, V) => From(f, V)
    BY <1>1, <2>3, FromWritten, Cells
  <2> HIDE DEF f
  <2>. QED
    BY <1>5, <2>1, <2>2, <2>4, <2>5
<1>8. CASE UnsignCut(p)
  <2> DEFINE h == [r.header EXCEPT !.signed = FALSE, !.signature = 0, !.signature_len = 0]
             f == Cut(file, r.header.signature)
  <2>1. /\ r.pc = "unsign_cut" /\ Step(p, [r EXCEPT !.pc = "unsign_head", !.header = h])
        /\ file' \in {f, file} /\ UNCHANGED <<source, careless>>
    BY <1>8, Wrote DEF UnsignCut
  <2>2. Rest /\ s = [r EXCEPT !.pc = "unsign_head", !.header = h] /\ r.header.signature \in Nat
    BY <1>1, <2>1, Stepped DEF IsHeader
  <2>3. /\ s.pc = "unsign_head" /\ s.cmd = r.cmd /\ s.since = r.since
        /\ s.header.timestamp = r.header.timestamp
    <3>1. h.timestamp = r.header.timestamp
      BY <1>1 DEF IsHeader, Garbage
    <3> HIDE DEF h
    <3>. QED
      BY <1>1, <2>2, <3>1 DEF TypedProc, Idle
  <2> HIDE DEF h
  <2>4. \/ f = <<>>
        \/ HeaderOf(f).timestamp = 0
        \/ InUse(HeaderOf(f).timestamp)
    BY <1>1, <1>4, <2>2, HeaderCut, Cells
  <2>5. \A V : From(file, V) => From(f, V)
    BY <1>1, <2>2, FromCut
  <2> HIDE DEF f
  <2>. QED
    BY <1>5, <2>1, <2>2, <2>3, <2>4, <2>5
<1>9. CASE UnsignHeader(p)
  <2> DEFINE f == WriteAt(file, 1, r.header)
  <2>1. /\ r.pc = "unsign_head" /\ Step(p, Idle)
        /\ file' \in {f, file} /\ UNCHANGED <<source, careless>>
    BY <1>9, Wrote DEF UnsignHeader, End
  <2>2. Rest /\ s = Idle
    BY <2>1, Stepped
  <2>3. HeaderOf(f) = r.header /\ \A V : From(file, V) => From(f, V)
    <3>1. HeaderOf(WriteAt(file, 1, r.header)) = r.header
      BY <1>1, HeaderWritten
    <3>2. "of" \notin DOMAIN r.header
      BY <1>1, Cells DEF IsHeader
    <3>3. \A V : From(file, V) => From(WriteAt(file, 1, r.header), V)
      BY <1>1, <3>2, FromWritten
    <3>. QED
      BY <3>1, <3>3
  <2> HIDE DEF f
  <2>. QED
    BY <1>3, <1>5, <2>1, <2>2, <2>3
<1>. QED
  BY <1>6, <1>7, <1>8, <1>9

\* An edit that is not careless puts every header out of use, and adds its version to
\* those that may be run.
LEMMA FreshEdit == Typed /\ FreshInv /\ Edit => FreshInv'
<1> SUFFICES ASSUME Typed, FreshInv, Edit, ~careless'
             PROVE  /\ file' # <<>> => HeaderOf(file').timestamp <= source'.mtime
                    /\ InUse(source.mtime)' => From(file', {source'.version})
                    /\ \A q \in Procs : FreshProc(proc[q])'
  BY DEF FreshInv
<1>1. PICK v \in Versions, t \in {source.mtime, source.mtime + 1} :
         /\ source' = [version |-> v, mtime |-> t]
         /\ careless' = (careless \/ t = source.mtime \/ \E p \in Procs : Compiling(p))
         /\ proc' = [p \in Procs |->
                        IF proc[p].cmd = "exec"
                        THEN [proc[p] EXCEPT !.since = @ \cup {v}] ELSE proc[p]]
         /\ file' = file
  BY DEF Edit
<1>2. source.mtime \in Nat \ {0}
  BY DEF Typed
<1>3. /\ ~careless /\ \A p \in Procs : proc[p].pc \notin Saving
      /\ source'.version = v /\ source'.mtime = source.mtime + 1
  BY <1>1 DEF Compiling, Saving
<1>4. ASSUME NEW q \in Procs
      PROVE  /\ TypedProc(proc[q]) /\ proc'[q].pc = proc[q].pc /\ proc'[q].cmd = proc[q].cmd
             /\ proc'[q].header = proc[q].header /\ proc'[q].parts = proc[q].parts
             /\ proc'[q].version = proc[q].version /\ proc'[q].mtime = proc[q].mtime
             /\ proc[q].cmd = "exec" => proc'[q].since = proc[q].since \cup {v}
  BY <1>1 DEF Typed, TypedProc, Idle
<1>5. ASSUME NEW u, InUse(u)' PROVE InUse(u)
  BY <1>1, <1>4, <1>5 DEF InUse
<1>6. file' # <<>> => HeaderOf(file').timestamp <= source'.mtime
  <2>1. file # <<>> => HeaderOf(file).timestamp <= source.mtime /\ HeaderOf(file).timestamp \in Nat
    BY <1>3 DEF FreshInv, Typed, TypedFile, IsHeader
  <2>. QED
    BY <1>1, <1>2, <1>3, <2>1
<1>7. ASSUME InUse(source.mtime)' PROVE FALSE
  <2>1. InUse(source.mtime + 1)
    <3>1. \/ file # <<>> /\ HeaderOf(file).timestamp = source.mtime + 1
          \/ \E p \in Procs : proc[p].pc # "trunc" /\ proc[p].header.timestamp = source.mtime + 1
      BY <1>1, <1>3, <1>4, <1>7 DEF InUse
    <3>. QED
      BY <3>1 DEF InUse
  <2>2. source.mtime + 1 <= source.mtime
    BY <1>3, <2>1, UsedBefore
  <2>. QED
    BY <1>2, <2>2
<1>8. ASSUME NEW q \in Procs PROVE FreshProc(proc[q])'
  <2> DEFINE r == proc[q]
             s == proc'[q]
  <2>1. /\ FreshWith(r, file) /\ r.header.timestamp \in Nat
        /\ r.pc = "look" /\ InUse(r.mtime) => From(file, r.since)
        /\ r.pc \in Reading => r.cmd = "exec"
    BY <1>3, <1>4 DEF FreshInv, FreshProc, TypedProc, IsHeader
  <2>2. r.header.timestamp <= source'.mtime
    BY <1>2, <1>3, <2>1 DEF FreshWith
  <2>3. r.cmd = "exec" => v \in s.since /\ r.since \subseteq s.since
    BY <1>4
  <2>4. r.pc \in {"valid", "load", "read"} => From(file, s.since) /\ From(r.parts, s.since)
    BY <2>1, <2>3, FromMore DEF FreshWith, Reading
  <2>5. FreshWith(proc[q], file)'
    BY <1>1, <1>3, <1>4, <2>1, <2>2, <2>3, <2>4 DEF FreshWith
  <2>6. ASSUME r.pc = "look", InUse(proc[q].mtime)' PROVE From(file, s.since)
    <3>1. InUse(r.mtime)
      BY <1>4, <1>5, <2>6
    <3>. QED
      BY <2>1, <2>3, <2>6, <3>1, FromMore DEF Reading
  <2>. QED
    BY <1>1, <1>4, <2>5, <2>6 DEF FreshProc
<1>. QED
  BY <1>6, <1>7, <1>8

\* Every step keeps what is run fresh.
LEMMA NextFresh == Typed /\ FreshInv /\ [Next]_vars => FreshInv'
<1> SUFFICES ASSUME Typed, FreshInv, [Next]_vars PROVE FreshInv'
  OBVIOUS
<1>1. CASE UNCHANGED vars
  <2>1. \A t : InUse(t)' <=> InUse(t)
    BY <1>1 DEF vars, InUse
  <2>. QED
    BY <1>1 DEF vars, FreshInv, FreshProc, FreshWith, InUse
<1>2. ASSUME NEW p \in Procs, Crash(p) PROVE FreshInv'
  <2>1. Step(p, Idle) /\ UNCHANGED <<source, careless, file>>
    BY <1>2 DEF Crash, End
  <2>2. /\ DOMAIN proc' = Procs /\ proc'[p] = Idle
        /\ \A q \in Procs \ {p} : proc'[q] = proc[q]
    BY <2>1, Stepped
  <2>3. /\ proc'[p].pc = "idle" /\ proc'[p].cmd # "exec" /\ proc'[p].header.timestamp = 0
        /\ source.mtime \in Nat
    BY <2>2, Cells DEF Idle, None, Typed
  <2>4. FreshWith(proc'[p], file')
    BY <2>3 DEF FreshWith, Saving
  <2>5. file = <<>> \/ InUse(HeaderOf(file).timestamp)
    BY DEF InUse
  <2>. QED
    BY <2>1, <2>2, <2>3, <2>4, <2>5, OneFresh
<1>. QED
  BY <1>1, <1>2, FreshSimple, FreshSave, FreshSign, FreshEdit DEF Next

\* What is run is the bytecode of a version that the source had at some time since the call,
\* unless an edit was made during a compilation or kept the time stamp.
THEOREM FreshSafety == Spec => []Fresh
<1>1. Init => Typed /\ FreshInv
  <2> SUFFICES ASSUME Init PROVE Typed /\ FreshInv
    OBVIOUS
  <2>1. /\ Typed /\ From(file, {source.version}) /\ source.mtime = 1
        /\ (file # <<>> => HeaderOf(file).timestamp = source.mtime)
    BY InitTyped
  <2>2. ASSUME NEW p \in Procs PROVE FreshProc(proc[p])
    <3>1. proc[p].pc = "idle" /\ proc[p].cmd # "exec" /\ proc[p].header.timestamp = 0
      BY Cells DEF Init, Idle, None
    <3>. QED
      BY <2>1, <3>1 DEF FreshProc, FreshWith, Saving
  <2>. QED
    BY <2>1, <2>2 DEF FreshInv
<1>2. Typed /\ FreshInv => Fresh
  BY DEF Typed, TypedProc, Reading, FreshInv, FreshProc, FreshWith, Fresh
<1>. QED
  BY <1>1, <1>2, NextTyped, NextFresh, PTL DEF Spec

-----------------------------------------------------------------------------
(* The file at rest.                                                       *)

Writers == {"open", "sign_read", "sign_tail", "unsign_cut", "unsign_head", "write", "finish"}

\* The places where a process is writing.
LEMMA WritersWrite == \A p \in Procs : Writing(p) <=> proc[p].pc \in Writers
  BY DEF Writing, Torn, Writers

\* A step of a process that does not write.
LEMMA IdleRest ==
  ASSUME RestInv, NEW p \in Procs, \A q \in Procs \ {p} : proc'[q] = proc[q],
         UNCHANGED <<file, exists>>, disturbed => disturbed',
         proc[p].pc \notin Writers, proc'[p].pc \notin Writers
  PROVE  RestInv'
<1>1. \A q \in Procs : Writing(q)' <=> Writing(q)
  BY DEF Writing, Torn, Writers
<1>2. ASSUME ~disturbed', NEW q \in Procs PROVE Shape(proc[q])'
  <2>1. Shape(proc[q])
    BY <1>2 DEF RestInv
  <2>2. CASE q = p
    BY <2>2 DEF Shape, Writers
  <2>3. CASE q # p
    BY <2>1, <2>3 DEF Shape, Plain, Signed, SignedBy, HasStream
  <2>. QED
    BY <2>2, <2>3
<1>. QED
  BY <1>1, <1>2 DEF RestInv, Plain, Signed, SignedBy, HasStream

\* A step of the only process that writes.
LEMMA AloneRest ==
  ASSUME NEW p \in Procs, \A q \in Procs \ {p} : proc'[q] = proc[q],
         ~disturbed' =>
            /\ \A q \in Procs \ {p} : proc[q].pc \notin Writers
            /\ Shape(proc[p])'
            /\ proc'[p].pc \notin Writers => \E v \in Versions : Plain(v)' \/ Signed(v)'
  PROVE  RestInv'
<1> SUFFICES ASSUME ~disturbed'
             PROVE  /\ \A q, u \in Procs : Writing(q)' /\ Writing(u)' => q = u
                    /\ exists' /\ (\A q \in Procs : ~Writing(q)') => \E v \in Versions : Plain(v)' \/ Signed(v)'
                    /\ \A q \in Procs : Shape(proc[q])'
  BY DEF RestInv
<1>1. \A q \in Procs : Writing(q)' => q = p
  BY DEF Writing, Torn, Writers
<1>2. (\A q \in Procs : ~Writing(q)') => proc'[p].pc \notin Writers
  BY DEF Writing, Torn, Writers
<1>3. ASSUME NEW q \in Procs PROVE Shape(proc[q])'
  <2>1. CASE q = p
    BY <2>1
  <2>2. CASE q # p
    BY <2>2 DEF Shape, Writers
  <2>. QED
    BY <2>1, <2>2
<1>. QED
  BY <1>1, <1>2, <1>3

\* While one writes and nothing was disturbed, the others do not.
LEMMA OthersDoNot ==
  ASSUME RestInv, ~disturbed, NEW p \in Procs, proc[p].pc \in Writers
  PROVE  Shape(proc[p]) /\ \A q \in Procs \ {p} : proc[q].pc \notin Writers
  BY WritersWrite DEF RestInv

\* The header that is read of a whole file is its first cell, and says whether it is signed.
LEMMA WholeHeader ==
  ASSUME Typed, NEW v \in Versions, Plain(v) \/ Signed(v)
  PROVE  /\ file # <<>> /\ IsHeader(file[1]) /\ HeaderOf(file) = file[1]
         /\ Plain(v) => ~IsSigned(file[1])
         /\ Signed(v) => IsSigned(file[1])
<1>1. Parts[v] \in Nat \ {0}
  BY StreamSeq
<1>2. DOMAIN file[1] = DOMAIN Garbage
  BY DEF Plain, Signed, SignedBy, Header, SignedHeader, Garbage
<1>3. Len(file) # 0
  BY <1>1 DEF Plain, Signed, SignedBy
<1>4. file # <<>> /\ HeaderOf(file) = file[1] /\ IsHeader(file[1])
  BY <1>2, <1>3, Indexed DEF HeaderOf, Typed, TypedFile
<1>5. Plain(v) => ~IsSigned(file[1])
  <2>1. Plain(v) => file[1].signature = 0
    BY DEF Plain, Header
  <2>. QED
    BY <2>1 DEF IsSigned
<1>6. Signed(v) => IsSigned(file[1])
  <2>1. Signed(v) => file[1].signed = TRUE /\ file[1].signature = Parts[v] + 1
    BY DEF Signed, SignedBy, SignedHeader, Header
  <2>. QED
    BY <1>1, <2>1 DEF IsSigned
<1>. QED
  BY <1>4, <1>5, <1>6

\* A step that writes nothing to the file, and of a process that does not write.
LEMMA RestSimple ==
  ASSUME Typed, RestInv, NEW p \in Procs,
         \/ Exec(p) \/ Look(p) \/ LoadValid(p) \/ LoadHeader(p) \/ Run(p)
         \/ \E verify \in BOOLEAN : Load(p, verify)
         \/ \E write \in BOOLEAN : Generate(p, write)
         \/ Compile(p) \/ SaveStamp(p)
         \/ \E cmd \in {"sign", "unsign"} : Start(p, cmd)
         \/ CheckValid(p)
         \/ ReadPart(p) /\ proc[p].pc = "read"
         \/ proc[p].pc \notin Writers /\ GiveUp(p)
  PROVE  RestInv'
<1> DEFINE r == proc[p]
           s == proc'[p]
           Rest == /\ \A q \in Procs \ {p} : proc'[q] = proc[q]
                   /\ UNCHANGED <<file, exists, disturbed>>
<1>1. DOMAIN r = DOMAIN Idle
  BY DEF Typed, TypedProc
<1>2. ASSUME Rest, s.pc \notin Writers, r.pc \notin Writers PROVE RestInv'
  BY <1>2, IdleRest
<1>3. ASSUME GiveUp(p), r.pc \notin Writers PROVE RestInv'
  <2>1. Rest /\ s = Idle
    BY <1>3, Stepped DEF GiveUp, End
  <2>. QED
    BY <1>2, <1>3, <2>1 DEF Idle, Writers
<1>4. ASSUME NEW next, Only(p, next) \/ Command(p, next) PROVE Rest /\ s = next
  BY <1>4, Stepped DEF Only, Command
<1>5. CASE Exec(p)
  <2>1. /\ Rest /\ r.pc = "idle"
        /\ s = [r EXCEPT !.pc = "look", !.cmd = "exec",
                         !.mtime = source.mtime, !.since = {source.version}]
    BY <1>4, <1>5 DEF Exec, Command
  <2>. QED
    BY <1>1, <1>2, <2>1 DEF Idle, Writers
<1>6. CASE Look(p)
  <2>1. /\ Rest /\ r.pc = "look"
        /\ \/ s = [r EXCEPT !.pc = "generate", !.mtime = 0]
           \/ \E h : s = [r EXCEPT !.pc = "valid", !.header = h, !.mtime = 0]
    BY <1>4, <1>6 DEF Look
  <2>2. s.pc \in {"generate", "valid"}
    BY <1>1, <2>1 DEF Idle
  <2>. QED
    BY <1>2, <2>1, <2>2 DEF Writers
<1>7. CASE LoadValid(p)
  <2>1. /\ r.pc = "valid"
        /\ \/ GiveUp(p)
           \/ Rest /\ \E h : s = [r EXCEPT !.pc = "load", !.header = h]
    BY <1>4, <1>7 DEF LoadValid
  <2>2. CASE Rest /\ \E h : s = [r EXCEPT !.pc = "load", !.header = h]
    BY <1>1, <1>2, <2>1, <2>2 DEF Idle, Writers
  <2>. QED
    BY <1>3, <2>1, <2>2 DEF Writers
<1>8. CASE LoadHeader(p)
  <2>1. /\ r.pc = "load"
        /\ \/ GiveUp(p)
           \/ Rest /\ s = [r EXCEPT !.pc = "read", !.header = HeaderOf(file), !.parts = <<>>]
    BY <1>4, <1>8 DEF LoadHeader
  <2>2. CASE Rest /\ s = [r EXCEPT !.pc = "read", !.header = HeaderOf(file), !.parts = <<>>]
    BY <1>1, <1>2, <2>1, <2>2 DEF Idle, Writers
  <2>. QED
    BY <1>3, <2>1, <2>2 DEF Writers
<1>9. CASE Run(p)
  BY <1>3, <1>9 DEF Run, Writers
<1>10. ASSUME NEW verify, Load(p, verify) PROVE RestInv'
  <2>1. /\ r.pc = "read"
        /\ \/ GiveUp(p)
           \/ Rest /\ \E v : s = [r EXCEPT !.pc = "run", !.version = v]
    BY <1>4, <1>10 DEF Load
  <2>2. CASE Rest /\ \E v : s = [r EXCEPT !.pc = "run", !.version = v]
    BY <1>1, <1>2, <2>1, <2>2 DEF Idle, Writers
  <2>. QED
    BY <1>3, <2>1, <2>2 DEF Writers
<1>11. ASSUME NEW write, Generate(p, write) PROVE RestInv'
  <2>1. /\ Rest /\ r.pc = "generate"
        /\ s = [r EXCEPT !.pc = IF write THEN "stamp" ELSE "run", !.version = source.version]
    BY <1>4, <1>11 DEF Generate
  <2>2. s.pc \in {"stamp", "run"}
    BY <1>1, <2>1 DEF Idle
  <2>. QED
    BY <1>2, <2>1, <2>2 DEF Writers
<1>12. CASE Compile(p)
  <2>1. /\ Rest /\ r.pc = "idle"
        /\ s = [r EXCEPT !.pc = "stamp", !.cmd = "compile", !.version = source.version]
    BY <1>4, <1>12 DEF Compile, Command
  <2>. QED
    BY <1>1, <1>2, <2>1 DEF Idle, Writers
<1>13. CASE SaveStamp(p)
  <2>1. /\ Rest /\ r.pc = "stamp"
        /\ s = [r EXCEPT !.pc = "trunc", !.header = Header(r.version, source.mtime)]
    BY <1>4, <1>13 DEF SaveStamp
  <2>. QED
    BY <1>1, <1>2, <2>1 DEF Idle, Writers
<1>14. ASSUME NEW cmd, Start(p, cmd) PROVE RestInv'
  <2>1. Rest /\ r.pc = "idle" /\ s = [r EXCEPT !.pc = "check", !.cmd = cmd]
    BY <1>4, <1>14 DEF Start, Command
  <2>. QED
    BY <1>1, <1>2, <2>1 DEF Idle, Writers
<1>15. CASE CheckValid(p)
  <2>1. /\ r.pc = "check"
        /\ \/ GiveUp(p)
           \/ Rest /\ \E h : s = [r EXCEPT !.pc = "signed", !.header = h]
    BY <1>4, <1>15 DEF CheckValid
  <2>2. CASE Rest /\ \E h : s = [r EXCEPT !.pc = "signed", !.header = h]
    BY <1>1, <1>2, <2>1, <2>2 DEF Idle, Writers
  <2>. QED
    BY <1>3, <2>1, <2>2 DEF Writers
<1>16. CASE ReadPart(p) /\ proc[p].pc = "read"
  <2>1. /\ Rest /\ r.pc = "read"
        /\ s = [r EXCEPT !.parts = Append(r.parts, At(file, Len(r.parts) + 2))]
    BY <1>4, <1>16 DEF ReadPart
  <2>. QED
    BY <1>1, <1>2, <2>1 DEF Idle, Writers
<1>. QED
  BY <1>3, <1>5, <1>6, <1>7, <1>8, <1>9, <1>10, <1>11, <1>12, <1>13, <1>14, <1>15, <1>16

\* A step that writes a bytecode file.
LEMMA RestSave ==
  ASSUME Typed, RestInv, NEW p \in Procs, SaveOpen(p) \/ SavePart(p) \/ SaveHeader(p)
  PROVE  RestInv'
<1> DEFINE r == proc[p]
           s == proc'[p]
           Others == \A q \in Procs \ {p} : proc'[q] = proc[q]
<1>1. DOMAIN r = DOMAIN Idle /\ IsSeq(r.parts) /\ Len(r.parts) \in Nat /\ IsSeq(file) /\ Len(file) \in Nat
  BY Indexed DEF Typed, TypedProc, TypedFile
<1>2. r.pc \in {"write", "finish"} =>
        /\ r.version \in Versions /\ r.header = Header(r.version, r.header.timestamp)
        /\ r.header.len = Parts[r.version] /\ Parts[r.version] \in Nat \ {0}
  <2> SUFFICES ASSUME r.pc \in {"write", "finish"}
               PROVE  /\ r.version \in Versions /\ r.header = Header(r.version, r.header.timestamp)
                      /\ r.header.len = Parts[r.version] /\ Parts[r.version] \in Nat \ {0}
    OBVIOUS
  <2>1. /\ r.version \in Versions /\ r.header = Header(r.version, r.header.timestamp)
        /\ r.header.timestamp \in Nat
    BY DEF Typed, TypedProc, Saving, IsHeader
  <2> HIDE DEF r
  <2>2. Header(r.version, r.header.timestamp).len = Parts[r.version] /\ Parts[r.version] \in Nat \ {0}
    BY <2>1, VersionHeader, StreamSeq
  <2>. QED
    BY <2>1, <2>2
<1>3. ASSUME NEW next, next \in Saved(p), r.pc \in {"trunc", "finish"}
      PROVE  next.pc \notin Writers
  BY <1>3, AfterSaving DEF Idle, Writers
<1>4. CASE SaveOpen(p)
  <2>1. CASE /\ r.pc = "trunc" /\ Step(p, [r EXCEPT !.pc = "write", !.parts = <<>>])
             /\ file' = <<>> /\ disturbed' = ~Alone(p)
    <3>1. Others /\ s = [r EXCEPT !.pc = "write", !.parts = <<>>]
      BY <2>1, Stepped
    <3>2. s.pc = "write" /\ s.parts = <<>>
      BY <1>1, <3>1 DEF Idle
    <3>3. Shape(proc[p])'
      BY <2>1, <3>2, Empty DEF Shape
    <3>4. ~disturbed' => \A q \in Procs \ {p} : proc[q].pc \notin Writers
      BY <2>1, WritersWrite DEF Alone
    <3>. QED
      BY <3>1, <3>2, <3>3, <3>4, AloneRest DEF Writers
  <2>2. CASE /\ r.pc = "trunc" /\ \E next \in Saved(p) : proc' = [proc EXCEPT ![p] = next]
             /\ UNCHANGED <<file, exists, disturbed>>
    <3>1. PICK next \in Saved(p) : Step(p, next)
      BY <2>2 DEF Step
    <3>2. Others /\ s = next
      BY <3>1, Stepped
    <3>. QED
      BY <1>3, <2>2, <3>2, IdleRest DEF Writers
  <2>. QED
    BY <1>4, <2>1, <2>2 DEF SaveOpen
<1>5. CASE SavePart(p)
  <2> DEFINE n == Len(r.parts) + 1
             x == Part(r.version, n)
             base == IF n = 1 THEN WriteAt(file, 1, Garbage) ELSE file
             written == WriteAt(base, n + 1, x)
             pc == IF n = r.header.len THEN "finish" ELSE "write"
             parts == Append(r.parts, x)
  <2>1. /\ r.pc = "write" /\ Step(p, [r EXCEPT !.pc = pc, !.parts = parts])
        /\ ~disturbed' => file' = written /\ ~disturbed
    <3>1. /\ r.pc = "write" /\ Step(p, [r EXCEPT !.pc = pc, !.parts = parts])
          /\ Write(written)
      BY <1>5 DEF SavePart
    <3> HIDE DEF written, r
    <3>. QED
      BY <3>1, Wrote
  <2>2. Others /\ s = [r EXCEPT !.pc = pc, !.parts = parts]
    BY <2>1, Stepped
  <2>3. /\ s.pc = pc /\ s.parts = parts /\ s.version = r.version
        /\ s.pc \in {"write", "finish"}
    BY <1>1, <2>2 DEF Idle
  <2>4. /\ n \in Nat \ {0} /\ Len(parts) = n /\ parts # <<>>
        /\ r.parts = <<>> <=> n = 1
    <3>1. IsSeq(parts) /\ Len(parts) = Len(r.parts) + 1 /\ parts # <<>>
      BY <1>1, AppendSeq
    <3>2. r.parts = <<>> <=> Len(r.parts) = 0
      BY <1>1, Indexed
    <3> HIDE DEF parts, r
    <3>. QED
      BY <1>1, <3>1, <3>2 DEF r
  <2>5. ASSUME ~disturbed'
        PROVE  Shape(proc[p])' /\ \A q \in Procs \ {p} : proc[q].pc \notin Writers
    <3>1. file' = written /\ ~disturbed
      BY <2>1, <2>5
    <3>2. Shape(r) /\ \A q \in Procs \ {p} : proc[q].pc \notin Writers
      BY <2>1, <3>1, OthersDoNot DEF Writers
    <3>3. /\ Len(file) = IF n = 1 THEN 0 ELSE n
          /\ \A i \in 1 .. n - 1 : file[i + 1] = Part(r.version, i)
      BY <1>1, <2>1, <2>4, <3>2 DEF Shape
    <3>4. /\ IsSeq(base) /\ Len(base) = n
          /\ \A i \in 1 .. n - 1 : base[i + 1] = Part(r.version, i)
      <4>1. CASE n = 1
        <5>1. Len(file) = 0 /\ Len(file) + 1 = 1
          BY <3>3, <4>1
        <5>2. /\ IsSeq(WriteAt(file, Len(file) + 1, Garbage))
              /\ Len(WriteAt(file, Len(file) + 1, Garbage)) = Len(file) + 1
          BY <1>1, WriteBehind
        <5>3. base = WriteAt(file, Len(file) + 1, Garbage)
          BY <4>1, <5>1
        <5>4. \A i \in 1 .. n - 1 : FALSE
          BY <4>1
        <5> HIDE DEF base, n
        <5>. QED
          BY <4>1, <5>1, <5>2, <5>3, <5>4
      <4>2. CASE n # 1
        BY <1>1, <3>3, <4>2
      <4>. QED
        BY <4>1, <4>2
    <3> HIDE DEF base, x
    <3>5. /\ IsSeq(written) /\ Len(written) = n + 1 /\ written[n + 1] = x
          /\ \A i \in 1 .. n : written[i] = base[i]
      <4> DEFINE t == WriteAt(base, Len(base) + 1, x)
      <4>1. /\ IsSeq(t) /\ Len(t) = Len(base) + 1 /\ t[Len(base) + 1] = x
            /\ \A i \in 1 .. Len(base) : t[i] = base[i]
        BY <3>4, WriteBehind
      <4>2. written = t
        BY <3>4
      <4> HIDE DEF written, t
      <4>. QED
        BY <3>4, <4>1, <4>2
    <3> HIDE DEF written
    <3>6. ASSUME NEW i \in 1 .. n PROVE written[i + 1] = Part(r.version, i)
      <4>1. CASE i = n
        BY <2>4, <3>5, <4>1 DEF x
      <4>2. CASE i # n
        <5>1. i \in 1 .. n - 1 /\ i + 1 \in 1 .. n
          BY <2>4, <4>2
        <5>. QED
          BY <3>4, <3>5, <5>1
      <4>. QED
        BY <4>1, <4>2
    <3> HIDE DEF parts, n, pc
    <3>7. Shape(proc[p])'
      BY <2>3, <2>4, <3>1, <3>5, <3>6 DEF Shape
    <3>. QED
      BY <3>2, <3>7
  <2>. QED
    BY <2>2, <2>3, <2>5, AloneRest DEF Writers
<1>6. CASE SaveHeader(p)
  <2>1. PICK next \in Saved(p) : Step(p, next)
    BY <1>6 DEF SaveHeader, Step
  <2>2. /\ r.pc = "finish"
        /\ ~disturbed' => file' = WriteAt(file, 1, r.header) /\ ~disturbed
    BY <1>6, Wrote DEF SaveHeader
  <2>3. Others /\ s = next
    BY <2>1, Stepped
  <2>4. s.pc \notin Writers
    BY <1>3, <2>2, <2>3
  <2>5. ASSUME ~disturbed'
        PROVE  /\ \A q \in Procs \ {p} : proc[q].pc \notin Writers
               /\ \E v \in Versions : Plain(v)'
    <3> DEFINE t == WriteAt(file, 1, r.header)
    <3>1. Shape(r) /\ \A q \in Procs \ {p} : proc[q].pc \notin Writers
      BY <2>2, <2>5, OthersDoNot DEF Writers
    <3>2. PICK v \in Versions : v = r.version
      BY <1>2, <2>2
    <3>3. Len(r.parts) = Parts[v] /\ Parts[v] \in Nat \ {0}
      BY <1>2, <2>2, <3>2 DEF Typed, TypedProc
    <3>4. r.parts # <<>>
      BY <1>1, <3>3, Indexed
    <3>5. /\ Len(file) = Parts[v] + 1
          /\ \A i \in 1 .. Parts[v] : file[i + 1] = Part(v, i)
      BY <2>2, <3>1, <3>2, <3>3, <3>4 DEF Shape
    <3>6. 1 \in 1 .. Len(file)
      BY <3>3, <3>5
    <3>7. /\ Len(t) = Len(file) /\ t[1] = r.header
          /\ \A i \in 1 .. Len(file) : i # 1 => t[i] = file[i]
      BY <1>1, <3>6, WriteInside
    <3>8. r.header = Header(v, r.header.timestamp)
      BY <1>2, <2>2, <3>2
    <3> HIDE DEF t, r
    <3>9. ASSUME NEW i \in 1 .. Parts[v] PROVE t[i + 1] = Part(v, i)
      <4>1. i + 1 \in 1 .. Len(file) /\ i + 1 # 1
        BY <3>3, <3>5
      <4>. QED
        BY <3>5, <3>7, <4>1
    <3>10. file' = t
      BY <2>2, <2>5 DEF t
    <3>11. Plain(v)'
      BY <3>5, <3>7, <3>8, <3>9, <3>10 DEF Plain, HasStream
    <3>. QED
      BY <3>1, <3>11
  <2>6. Shape(proc[p])'
    BY <2>4 DEF Shape, Writers
  <2>. QED
    BY <2>3, <2>4, <2>5, <2>6, AloneRest
<1>. QED
  BY <1>4, <1>5, <1>6

\* A file that a step made has what makes it a whole one.
LEMMA MadePlain ==
  ASSUME NEW t, file' = t, NEW v \in Versions, Len(t) = Parts[v] + 1,
         \A i \in 1 .. Parts[v] : t[i + 1] = Part(v, i)
  PROVE  /\ Len(file') = Parts[v] + 1 /\ HasStream(v)'
         /\ t[1] = Header(v, t[1].timestamp) => Plain(v)'
  BY DEF Plain, HasStream

\* And with the signature behind it.
LEMMA MadeSigned ==
  ASSUME NEW t, file' = t, NEW v \in Versions, NEW n \in {0, 1}, Len(t) = Parts[v] + 1 + n,
         \A i \in 1 .. Parts[v] : t[i + 1] = Part(v, i),
         t[1] = SignedHeader(v, t[1].timestamp, n), n = 1 => t[Parts[v] + 2] = Signature(Stream(v))
  PROVE  Signed(v)'
  BY DEF Signed, SignedBy, HasStream

\* A step that finds the file signed or not, opens it or reads it to sign it.
LEMMA RestOpen ==
  ASSUME Typed, RestInv, NEW p \in Procs,
         CheckSigned(p) \/ OpenForUpdate(p) \/ (ReadPart(p) /\ proc[p].pc = "sign_read")
  PROVE  RestInv'
<1> DEFINE r == proc[p]
           s == proc'[p]
           Others == \A q \in Procs \ {p} : proc'[q] = proc[q]
<1>1. DOMAIN r = DOMAIN Idle /\ IsSeq(r.parts) /\ Len(r.parts) \in Nat /\ IsSeq(file) /\ Len(file) \in Nat
  BY Indexed DEF Typed, TypedProc, TypedFile
<1>2. ASSUME NEW h \in Headers(p), NEW v \in Versions, Plain(v) \/ Signed(v)
      PROVE  h = file[1] /\ (Plain(v) => ~IsSigned(h)) /\ (Signed(v) => IsSigned(h))
  <2>1. /\ file # <<>> /\ HeaderOf(file) = file[1]
        /\ Plain(v) => ~IsSigned(file[1])
        /\ Signed(v) => IsSigned(file[1])
    BY <1>2, WholeHeader
  <2>2. h = HeaderOf(file)
    BY <2>1, HeadersRead
  <2>. QED
    BY <2>1, <2>2
<1>3. CASE CheckSigned(p)
  <2>1. CASE r.pc = "signed" /\ GiveUp(p)
    BY <2>1, RestSimple DEF Writers
  <2>2. ASSUME NEW h \in Headers(p), r.pc = "signed", exists,
               IsSigned(h) = (r.cmd = "unsign"),
               Step(p, [r EXCEPT !.pc = "open", !.header = h]),
               disturbed' = (disturbed \/ ~Alone(p)), UNCHANGED <<file, exists>>
        PROVE  RestInv'
    <3>0. Others /\ s = [r EXCEPT !.pc = "open", !.header = h]
      BY <2>2, Stepped
    <3>1. Others /\ s.pc = "open" /\ s.cmd = r.cmd
      BY <1>1, <3>0 DEF Idle
    <3>2. ASSUME ~disturbed'
          PROVE  /\ \A q \in Procs \ {p} : proc[q].pc \notin Writers
                 /\ Shape(proc[p])'
      <4>1. ~disturbed /\ \A q \in Procs \ {p} : proc[q].pc \notin Writers
        BY <2>2, <3>2, WritersWrite DEF Alone
      <4>2. \A q \in Procs : ~Writing(q)
        BY <2>2, <4>1, WritersWrite DEF Writers
      <4>3. PICK v \in Versions : Plain(v) \/ Signed(v)
        BY <2>2, <4>1, <4>2 DEF RestInv
      <4>4. (Plain(v) => ~IsSigned(h)) /\ (Signed(v) => IsSigned(h))
        BY <1>2, <4>3
      <4>5. IF s.cmd = "unsign" THEN Signed(v) ELSE Plain(v)
        BY <2>2, <3>1, <4>3, <4>4
      <4>6. (Plain(v) => Plain(v)') /\ (Signed(v) => Signed(v)')
        BY <2>2 DEF Plain, Signed, SignedBy, HasStream
      <4>. QED
        BY <3>1, <4>1, <4>5, <4>6 DEF Shape
    <3>. QED
      BY <3>1, <3>2, AloneRest DEF Writers
  <2>. QED
    BY <1>3, <2>1, <2>2 DEF CheckSigned
<1>4. CASE OpenForUpdate(p)
  <2>1. PICK h \in Headers(p) :
          /\ r.pc = "open" /\ UNCHANGED <<file, exists, disturbed>>
          /\ Step(p, [r EXCEPT !.pc = IF r.cmd = "unsign" THEN "unsign_cut" ELSE "sign_read",
                               !.header = h, !.parts = <<>>])
    BY <1>4 DEF OpenForUpdate, Only
  <2>2. /\ Others /\ s.pc = IF r.cmd = "unsign" THEN "unsign_cut" ELSE "sign_read"
        /\ s.header = h /\ s.parts = <<>>
    <3> DEFINE pc == IF r.cmd = "unsign" THEN "unsign_cut" ELSE "sign_read"
    <3>1. Others /\ s = [r EXCEPT !.pc = pc, !.header = h, !.parts = <<>>]
      BY <2>1, Stepped
    <3> HIDE DEF pc, s, r
    <3>2. s.pc = pc /\ s.header = h /\ s.parts = <<>>
      BY <1>1, <3>1 DEF Idle
    <3>. QED
      BY <3>1, <3>2 DEF pc
  <2>3. ASSUME ~disturbed'
        PROVE  /\ \A q \in Procs \ {p} : proc[q].pc \notin Writers
               /\ Shape(proc[p])'
    <3>1. Shape(r) /\ \A q \in Procs \ {p} : proc[q].pc \notin Writers
      BY <2>1, <2>3, OthersDoNot DEF Writers
    <3>2. PICK v \in Versions : IF r.cmd = "unsign" THEN Signed(v) ELSE Plain(v)
      BY <2>1, <3>1 DEF Shape
    <3>3. h = file[1]
      BY <1>2, <3>2
    <3>4. (Plain(v) => Plain(v)') /\ (Signed(v) => Signed(v)')
      BY <2>1 DEF Plain, Signed, SignedBy, HasStream
    <3>5. Len(s.parts) = 0
      BY <2>2, Empty
    <3>6. CASE r.cmd = "unsign"
      BY <2>1, <2>2, <3>1, <3>2, <3>3, <3>4, <3>6 DEF Shape
    <3>7. CASE r.cmd # "unsign"
      BY <2>1, <2>2, <3>1, <3>2, <3>3, <3>4, <3>5, <3>7 DEF Shape
    <3>. QED
      BY <3>6, <3>7
  <2>. QED
    BY <2>2, <2>3, AloneRest DEF Writers
<1>5. CASE ReadPart(p) /\ proc[p].pc = "sign_read"
  <2> DEFINE x == At(file, Len(r.parts) + 2)
             parts == Append(r.parts, x)
  <2>1. /\ r.pc = "sign_read" /\ Len(r.parts) < r.header.len
        /\ Step(p, [r EXCEPT !.parts = parts]) /\ UNCHANGED <<file, exists, disturbed>>
    BY <1>5 DEF ReadPart, Only
  <2>2. Others /\ s.pc = "sign_read" /\ s.header = r.header /\ s.parts = parts
    BY <1>1, <2>1, Stepped DEF Idle
  <2>3. /\ Len(parts) = Len(r.parts) + 1
        /\ \A i \in 1 .. Len(r.parts) : parts[i] = r.parts[i]
        /\ parts[Len(r.parts) + 1] = x
    BY <1>1, AppendSeq
  <2>4. ASSUME ~disturbed'
        PROVE  /\ \A q \in Procs \ {p} : proc[q].pc \notin Writers
               /\ Shape(proc[p])'
    <3>1. Shape(r) /\ \A q \in Procs \ {p} : proc[q].pc \notin Writers
      BY <2>1, <2>4, OthersDoNot DEF Writers
    <3>2. PICK v \in Versions :
            /\ Plain(v) /\ r.header = file[1]
            /\ \A i \in 1 .. Len(r.parts) : r.parts[i] = Part(v, i)
      BY <2>1, <3>1 DEF Shape
    <3>3. Parts[v] \in Nat \ {0} /\ r.header.len = Parts[v]
      <4>1. file[1].len = Parts[v]
        BY <3>2 DEF Plain, Header
      <4>. QED
        BY <3>2, <4>1, StreamSeq
    <3>4. Len(r.parts) + 1 \in 1 .. Parts[v] /\ Len(file) = Parts[v] + 1 /\ HasStream(v)
      BY <1>1, <2>1, <3>2, <3>3 DEF Plain
    <3>5. Len(r.parts) + 2 \in 1 .. Len(file) /\ Len(r.parts) + 2 = (Len(r.parts) + 1) + 1
      BY <1>1, <3>3, <3>4
    <3>6. x = Part(v, Len(r.parts) + 1)
      <4>1. x = file[(Len(r.parts) + 1) + 1]
        BY <1>1, <3>5, Indexed DEF At
      <4>. QED
        BY <3>4, <4>1 DEF HasStream
    <3>7. Plain(v)'
      BY <2>1, <3>2 DEF Plain, HasStream
    <3> HIDE DEF parts, x
    <3>8. ASSUME NEW i \in 1 .. Len(parts) PROVE parts[i] = Part(v, i)
      <4>1. i = Len(r.parts) + 1 \/ i \in 1 .. Len(r.parts)
        BY <1>1, <2>3
      <4>. QED
        BY <2>3, <3>2, <3>6, <4>1
    <3>. QED
      BY <2>1, <2>2, <3>1, <3>2, <3>7, <3>8 DEF Shape
  <2>. QED
    BY <2>2, <2>4, AloneRest DEF Writers
<1>. QED
  BY <1>3, <1>4, <1>5

\* A step that writes or takes away a signature.
LEMMA RestSign ==
  ASSUME Typed, RestInv, NEW p \in Procs,
         SignHeader(p) \/ SignTail(p) \/ UnsignCut(p) \/ UnsignHeader(p)
  PROVE  RestInv'
<1> DEFINE r == proc[p]
           s == proc'[p]
           Others == \A q \in Procs \ {p} : proc'[q] = proc[q]
<1>1. DOMAIN r = DOMAIN Idle /\ IsSeq(r.parts) /\ Len(r.parts) \in Nat /\ IsSeq(file) /\ Len(file) \in Nat
  BY Indexed DEF Typed, TypedProc, TypedFile
<1>2. ASSUME ~disturbed, r.pc \in Writers
      PROVE  Shape(r) /\ \A q \in Procs \ {p} : proc[q].pc \notin Writers
  BY <1>2, OthersDoNot
<1>3. ASSUME NEW v \in Versions, HasStream(v)
      PROVE  \A i \in 1 .. Parts[v] : file[i + 1] = Part(v, i)
  BY <1>3 DEF HasStream
<1>4. ASSUME NEW v \in Versions, Len(file) = Parts[v] + 1, HasStream(v), NEW x
      PROVE  LET t == WriteAt(file, 1, x)
             IN /\ Len(t) = Parts[v] + 1 /\ t[1] = x
                /\ \A i \in 1 .. Parts[v] : t[i + 1] = Part(v, i)
  <2> DEFINE t == WriteAt(file, 1, x)
  <2>1. Parts[v] \in Nat \ {0} /\ 1 \in 1 .. Len(file)
    BY <1>4, StreamSeq
  <2>2. /\ Len(t) = Len(file) /\ t[1] = x
        /\ \A i \in 1 .. Len(file) : i # 1 => t[i] = file[i]
    BY <1>1, <2>1, WriteInside
  <2> HIDE DEF t
  <2>3. ASSUME NEW i \in 1 .. Parts[v] PROVE t[i + 1] = Part(v, i)
    <3>1. i + 1 \in 1 .. Len(file) /\ i + 1 # 1
      BY <1>4, <2>1
    <3>. QED
      BY <1>3, <1>4, <2>2, <3>1
  <2>. QED
    BY <1>4, <2>2, <2>3 DEF t
<1>5. CASE SignHeader(p)
  <2> PICK n \in {0, 1} :
        LET h == [r.header EXCEPT !.signed = TRUE, !.signature = Len(file), !.signature_len = n]
        IN /\ Step(p, [r EXCEPT !.pc = "sign_tail", !.header = h])
           /\ Write(WriteAt(file, 1, h))
    BY <1>5 DEF SignHeader
  <2> DEFINE h == [r.header EXCEPT !.signed = TRUE, !.signature = Len(file), !.signature_len = n]
  <2>1. /\ r.pc = "sign_read" /\ Len(r.parts) = r.header.len
        /\ Step(p, [r EXCEPT !.pc = "sign_tail", !.header = h])
        /\ ~disturbed' => file' = WriteAt(file, 1, h) /\ ~disturbed
    <3> DEFINE f == WriteAt(file, 1, h)
    <3>1. /\ r.pc = "sign_read" /\ Len(r.parts) = r.header.len
          /\ Step(p, [r EXCEPT !.pc = "sign_tail", !.header = h]) /\ Write(f)
      BY <1>5 DEF SignHeader
    <3> HIDE DEF f, h, r
    <3>2. ~disturbed' => file' = f /\ ~disturbed
      BY <3>1, Wrote
    <3>. QED
      BY <3>1, <3>2 DEF f
  <2>2. Others /\ s = [r EXCEPT !.pc = "sign_tail", !.header = h]
    BY <2>1, Stepped
  <2>3. s.pc = "sign_tail" /\ s.header = h /\ s.parts = r.parts
    BY <1>1, <2>2 DEF Idle
  <2>4. ASSUME ~disturbed'
        PROVE  /\ \A q \in Procs \ {p} : proc[q].pc \notin Writers
               /\ Shape(proc[p])'
    <3>1. Shape(r) /\ \A q \in Procs \ {p} : proc[q].pc \notin Writers
      BY <1>2, <2>1, <2>4 DEF Writers
    <3>2. PICK v \in Versions :
            /\ Plain(v) /\ r.header = file[1]
            /\ \A i \in 1 .. Len(r.parts) : r.parts[i] = Part(v, i)
      BY <2>1, <3>1 DEF Shape
    <3>3. Len(file) = Parts[v] + 1 /\ HasStream(v) /\ r.header = Header(v, r.header.timestamp)
      BY <3>2 DEF Plain
    <3>4. h = SignedHeader(v, h.timestamp, n)
      <4>1. h = SignedHeader(v, r.header.timestamp, n)
        BY <3>3 DEF SignedHeader
      <4>2. SignedHeader(v, r.header.timestamp, n).timestamp = r.header.timestamp
        BY DEF SignedHeader, Header
      <4>. QED
        BY <4>1, <4>2
    <3>5. r.parts = Stream(v)
      <4>1. r.header.len = Parts[v]
        BY <3>3 DEF Header
      <4>2. Len(r.parts) = Len(Stream(v)) /\ IsSeq(Stream(v))
        BY <2>1, <4>1, StreamSeq
      <4>3. \A i \in 1 .. Len(r.parts) : r.parts[i] = Stream(v)[i]
        BY <3>2, <4>2, StreamSeq
      <4>. QED
        BY <1>1, <4>2, <4>3, SameSeq
    <3> DEFINE t == WriteAt(file, 1, h)
    <3> HIDE DEF h
    <3>6. /\ Len(t) = Parts[v] + 1 /\ t[1] = h
          /\ \A i \in 1 .. Parts[v] : t[i + 1] = Part(v, i)
      BY <1>4, <3>3
    <3>7. file' = t
      BY <2>1, <2>4
    <3> HIDE DEF t
    <3>8. Len(file') = Parts[v] + 1 /\ HasStream(v)'
      BY <3>6, <3>7, MadePlain
    <3>. QED
      BY <2>3, <3>1, <3>4, <3>5, <3>6, <3>7, <3>8 DEF Shape
  <2>. QED
    BY <2>2, <2>3, <2>4, AloneRest DEF Writers
<1>6. CASE SignTail(p)
  <2>1. /\ r.pc = "sign_tail" /\ Step(p, Idle)
        /\ ~disturbed' =>
              /\ ~disturbed
              /\ file' = IF r.header.signature_len = 0 THEN file
                         ELSE WriteAt(file, r.header.signature + 1, Signature(r.parts))
    BY <1>6, Wrote DEF SignTail, End
  <2>2. Others /\ s = Idle
    BY <2>1, Stepped
  <2>3. s.pc \notin Writers /\ Shape(proc[p])'
    BY <2>2 DEF Idle, Writers, Shape
  <2>4. ASSUME ~disturbed'
        PROVE  /\ \A q \in Procs \ {p} : proc[q].pc \notin Writers
               /\ \E v \in Versions : Signed(v)'
    <3>1. Shape(r) /\ \A q \in Procs \ {p} : proc[q].pc \notin Writers
      BY <1>2, <2>1, <2>4 DEF Writers
    <3>2. PICK v \in Versions, n \in {0, 1} :
            /\ Len(file) = Parts[v] + 1 /\ HasStream(v)
            /\ r.header = SignedHeader(v, r.header.timestamp, n) /\ file[1] = r.header
            /\ r.parts = Stream(v)
      BY <2>1, <3>1 DEF Shape
    <3>3. Parts[v] \in Nat \ {0}
      BY StreamSeq
    <3>4. r.header.signature = Parts[v] + 1 /\ r.header.signature_len = n
      BY <3>2 DEF SignedHeader, Header
    <3>5. CASE n = 0
      <4>1. file' = file
        BY <2>1, <2>4, <3>4, <3>5
      <4>2. Len(file) = Parts[v] + 1 + n /\ file[1] = SignedHeader(v, file[1].timestamp, n)
        BY <3>2, <3>3, <3>5
      <4>3. Signed(v)'
        BY <1>3, <3>2, <3>5, <4>1, <4>2, MadeSigned
      <4>. QED
        BY <3>1, <4>3
    <3>6. CASE n = 1
      <4> DEFINE x == Signature(Stream(v))
                 t == WriteAt(file, Len(file) + 1, x)
      <4>1. /\ Len(t) = Len(file) + 1 /\ t[Len(file) + 1] = x
            /\ \A i \in 1 .. Len(file) : t[i] = file[i]
        BY <1>1, WriteBehind
      <4>2. file' = t
        BY <2>1, <2>4, <3>2, <3>4, <3>6
      <4> HIDE DEF t
      <4>3. /\ Len(t) = Parts[v] + 1 + n /\ t[Parts[v] + 2] = x
            /\ t[1] = SignedHeader(v, t[1].timestamp, n)
        <5>1. 1 \in 1 .. Len(file) /\ file[1] = SignedHeader(v, file[1].timestamp, n)
          BY <3>2, <3>3
        <5>2. t[1] = file[1]
          BY <4>1, <5>1
        <5>3. Len(t) = Parts[v] + 1 + n /\ t[Parts[v] + 2] = x
          BY <3>2, <3>3, <3>6, <4>1
        <5>. QED
          BY <5>1, <5>2, <5>3
      <4>4. ASSUME NEW i \in 1 .. Parts[v] PROVE t[i + 1] = Part(v, i)
        <5>1. i + 1 \in 1 .. Len(file)
          BY <3>2, <3>3
        <5>. QED
          BY <1>3, <3>2, <4>1, <5>1
      <4>5. Signed(v)'
        BY <4>2, <4>3, <4>4, MadeSigned
      <4>. QED
        BY <3>1, <4>5
    <3>. QED
      BY <3>5, <3>6
  <2>. QED
    BY <2>2, <2>3, <2>4, AloneRest
<1>7. CASE UnsignCut(p)
  <2> DEFINE h == [r.header EXCEPT !.signed = FALSE, !.signature = 0, !.signature_len = 0]
  <2>1. /\ r.pc = "unsign_cut" /\ Step(p, [r EXCEPT !.pc = "unsign_head", !.header = h])
        /\ ~disturbed' => file' = Cut(file, r.header.signature) /\ ~disturbed
    BY <1>7, Wrote DEF UnsignCut
  <2>2. Others /\ s = [r EXCEPT !.pc = "unsign_head", !.header = h]
    BY <2>1, Stepped
  <2>3. s.pc = "unsign_head" /\ s.header = h
    BY <1>1, <2>2 DEF Idle
  <2>4. ASSUME ~disturbed'
        PROVE  /\ \A q \in Procs \ {p} : proc[q].pc \notin Writers
               /\ Shape(proc[p])'
    <3>1. Shape(r) /\ \A q \in Procs \ {p} : proc[q].pc \notin Writers
      BY <1>2, <2>1, <2>4 DEF Writers
    <3>2. PICK v \in Versions, m \in {0, 1} : SignedBy(v, m) /\ r.header = file[1]
      BY <2>1, <3>1 DEF Shape, Signed
    <3>3. /\ Len(file) = Parts[v] + 1 + m /\ HasStream(v)
          /\ r.header = SignedHeader(v, r.header.timestamp, m)
      BY <3>2 DEF SignedBy
    <3>4. Parts[v] \in Nat \ {0} /\ r.header.signature = Parts[v] + 1
      BY <3>3, StreamSeq DEF SignedHeader, Header
    <3>5. h = Header(v, h.timestamp)
      <4>1. h = Header(v, r.header.timestamp)
        <5>1. h = [SignedHeader(v, r.header.timestamp, m)
                      EXCEPT !.signed = FALSE, !.signature = 0, !.signature_len = 0]
          BY <3>3
        <5>. QED
          BY <5>1, UnsignedHeader
      <4>2. Header(v, r.header.timestamp).timestamp = r.header.timestamp
        BY DEF Header
      <4>. QED
        BY <4>1, <4>2
    <3> DEFINE n == Parts[v] + 1
               t == Cut(file, n)
    <3>6. n \in Nat
      BY <3>4
    <3>7. Len(t) = n /\ \A i \in 1 .. n : t[i] = At(file, i)
      BY <3>6, CutSeq
    <3>8. file' = t
      BY <2>1, <2>4, <3>4
    <3> HIDE DEF t, h
    <3>9. ASSUME NEW i \in 1 .. Parts[v] PROVE t[i + 1] = Part(v, i)
      <4>1. i + 1 \in 1 .. n /\ i + 1 \in 1 .. Len(file)
        BY <3>3, <3>4
      <4>2. t[i + 1] = file[i + 1]
        BY <1>1, <3>7, <4>1, Indexed DEF At
      <4>. QED
        BY <1>3, <3>3, <4>2
    <3>10. Len(file') = Parts[v] + 1 /\ HasStream(v)'
      BY <3>7, <3>8, <3>9, MadePlain
    <3>. QED
      BY <2>3, <3>1, <3>5, <3>10 DEF Shape
  <2>. QED
    BY <2>2, <2>3, <2>4, AloneRest DEF Writers
<1>8. CASE UnsignHeader(p)
  <2>1. /\ r.pc = "unsign_head" /\ Step(p, Idle)
        /\ ~disturbed' => file' = WriteAt(file, 1, r.header) /\ ~disturbed
    BY <1>8, Wrote DEF UnsignHeader, End
  <2>2. Others /\ s = Idle
    BY <2>1, Stepped
  <2>3. s.pc \notin Writers /\ Shape(proc[p])'
    BY <2>2 DEF Idle, Writers, Shape
  <2>4. ASSUME ~disturbed'
        PROVE  /\ \A q \in Procs \ {p} : proc[q].pc \notin Writers
               /\ \E v \in Versions : Plain(v)'
    <3>1. Shape(r) /\ \A q \in Procs \ {p} : proc[q].pc \notin Writers
      BY <1>2, <2>1, <2>4 DEF Writers
    <3>2. PICK v \in Versions :
            /\ Len(file) = Parts[v] + 1 /\ HasStream(v)
            /\ r.header = Header(v, r.header.timestamp)
      BY <2>1, <3>1 DEF Shape
    <3> DEFINE t == WriteAt(file, 1, r.header)
    <3>3. /\ Len(t) = Parts[v] + 1 /\ t[1] = r.header
          /\ \A i \in 1 .. Parts[v] : t[i + 1] = Part(v, i)
      BY <1>4, <3>2
    <3>4. file' = t
      BY <2>1, <2>4
    <3> HIDE DEF t
    <3>5. Plain(v)'
      BY <3>2, <3>3, <3>4, MadePlain
    <3>. QED
      BY <3>1, <3>5
  <2>. QED
    BY <2>2, <2>3, <2>4, AloneRest
<1>. QED
  BY <1>5, <1>6, <1>7, <1>8

\* An edit, which changes nothing of a file or of who writes it, and the end of a
\* process, which leaves the file as it was.
LEMMA RestEvent ==
  ASSUME Typed, RestInv, Edit \/ \E p \in Procs : Crash(p)
  PROVE  RestInv'
<1>1. CASE Edit
  <2>1. PICK v \in Versions :
           proc' = [p \in Procs |->
                       IF proc[p].cmd = "exec"
                       THEN [proc[p] EXCEPT !.since = @ \cup {v}] ELSE proc[p]]
    BY <1>1 DEF Edit
  <2>2. UNCHANGED <<exists, file, disturbed>>
    BY <1>1 DEF Edit
  <2>3. ASSUME NEW p \in Procs
        PROVE  /\ proc'[p].pc = proc[p].pc /\ proc'[p].cmd = proc[p].cmd
               /\ proc'[p].header = proc[p].header /\ proc'[p].parts = proc[p].parts
               /\ proc'[p].version = proc[p].version
    BY <2>1 DEF Typed, TypedProc, Idle
  <2>4. ASSUME NEW p \in Procs PROVE Writing(p)' <=> Writing(p)
    BY <2>3 DEF Writing, Torn
  <2>5. ASSUME NEW p \in Procs, Shape(proc[p]) PROVE Shape(proc[p])'
    BY <2>2, <2>3, <2>5 DEF Shape, Plain, Signed, SignedBy, HasStream
  <2>6. \A u \in Versions : (Plain(u) => Plain(u)') /\ (Signed(u) => Signed(u)')
    BY <2>2 DEF Plain, Signed, SignedBy, HasStream
  <2>. QED
    BY <2>2, <2>4, <2>5, <2>6 DEF RestInv
<1>2. ASSUME NEW p \in Procs, Crash(p) PROVE RestInv'
  <2>1. UNCHANGED <<exists, file>> /\ disturbed' = (disturbed \/ Torn(p))
    BY <1>2 DEF Crash
  <2>2. /\ proc'[p] = Idle
        /\ \A q \in Procs \ {p} : proc'[q] = proc[q]
    BY <1>2 DEF Typed, Crash, End, Step
  <2>3. proc'[p].pc \notin Writers /\ Shape(proc[p])'
    BY <2>2 DEF Idle, Writers, Shape
  <2>4. CASE proc[p].pc \notin Writers
    <3>1. disturbed => disturbed'
      BY <2>1
    <3>. QED
      BY <2>1, <2>2, <2>3, <2>4, <3>1, IdleRest
  <2>5. CASE proc[p].pc \in Writers
    <3>1. ASSUME ~disturbed'
          PROVE  /\ \A q \in Procs \ {p} : proc[q].pc \notin Writers
                 /\ \E v \in Versions : Plain(v)' \/ Signed(v)'
      <4>1. /\ ~disturbed /\ proc[p].pc \in {"open", "sign_read", "unsign_cut"}
        BY <2>1, <2>5, <3>1 DEF Torn, Writers
      <4>2. Shape(proc[p]) /\ \A q \in Procs \ {p} : proc[q].pc \notin Writers
        BY <2>5, <4>1, OthersDoNot
      <4>3. PICK v \in Versions : Plain(v) \/ Signed(v)
        BY <4>1, <4>2 DEF Shape
      <4>4. (Plain(v) => Plain(v)') /\ (Signed(v) => Signed(v)')
        BY <2>1 DEF Plain, Signed, SignedBy, HasStream
      <4>. QED
        BY <4>2, <4>3, <4>4
    <3>. QED
      BY <2>2, <2>3, <3>1, AloneRest
  <2>. QED
    BY <2>4, <2>5
<1>. QED
  BY <1>1, <1>2

\* Every step keeps who writes alone, and what the file is then and at rest.
LEMMA NextRest == Typed /\ RestInv /\ [Next]_vars => RestInv'
<1> SUFFICES ASSUME Typed, RestInv, [Next]_vars PROVE RestInv'
  OBVIOUS
<1>1. CASE UNCHANGED vars
  <2>1. UNCHANGED <<proc, file, exists, disturbed>>
    BY <1>1 DEF vars
  <2>2. \A p \in Procs : Shape(proc[p]) => Shape(proc[p])'
    BY <2>1 DEF Shape, Plain, Signed, SignedBy, HasStream
  <2>3. \A p \in Procs : Writing(p)' <=> Writing(p)
    BY <2>1 DEF Writing, Torn
  <2>. QED
    BY <2>1, <2>2, <2>3 DEF RestInv, Plain, Signed, SignedBy, HasStream
<1>2. CASE Edit
  BY <1>2, RestEvent
<1>3. ASSUME NEW p \in Procs, ReadPart(p) PROVE RestInv'
  <2>1. proc[p].pc \in {"read", "sign_read"}
    BY <1>3 DEF ReadPart
  <2>. QED
    BY <1>3, <2>1, RestSimple, RestOpen
<1>4. ASSUME NEW p \in Procs,
             \/ Exec(p) \/ Look(p) \/ LoadValid(p) \/ LoadHeader(p) \/ Run(p)
             \/ \E verify \in BOOLEAN : Load(p, verify)
             \/ \E write \in BOOLEAN : Generate(p, write)
             \/ Compile(p) \/ SaveStamp(p)
             \/ \E cmd \in {"sign", "unsign"} : Start(p, cmd)
             \/ CheckValid(p)
      PROVE  RestInv'
  BY <1>4, RestSimple
<1>. QED
  BY <1>1, <1>2, <1>3, <1>4, RestSave, RestOpen, RestSign, RestEvent DEF Next

\* do_exec, fcgi_loop, "saffire bytecode": when nobody writes, and the last who did was
\* alone, came to the end and had every write succeed, the file is a whole one, with the
\* signature it announces, of the length it announces, and no other.
THEOREM WholeAtRestSafety == Spec => []WholeAtRest
<1>1. Init => Typed /\ RestInv
  <2> SUFFICES ASSUME Init PROVE Typed /\ RestInv
    OBVIOUS
  <2>1. Typed /\ (exists => \E v \in Versions : Plain(v) \/ Signed(v))
    BY InitTyped
  <2>2. \A p \in Procs : proc[p].pc = "idle"
    BY DEF Init, Idle
  <2>3. \A p \in Procs : ~Writing(p) /\ Shape(proc[p])
    BY <2>2 DEF Writing, Torn, Shape
  <2>. QED
    BY <2>1, <2>3 DEF RestInv
<1>2. Typed /\ RestInv => WholeAtRest
  <2> SUFFICES ASSUME Typed, RestInv, exists, ~disturbed, \A p \in Procs : ~Writing(p)
               PROVE  /\ file # <<>> /\ file[1].magic
                      /\ \E v \in Versions : file = Whole(v, file[1].timestamp, file[1].signed,
                                                       file[1].signature_len)
    BY DEF WholeAtRest
  <2>1. PICK v \in Versions : Plain(v) \/ Signed(v)
    BY DEF RestInv
  <2>2. IsSeq(file)
    BY DEF Typed, TypedFile
  <2>. QED
    BY <2>1, <2>2, WholeFile
<1>. QED
  BY <1>1, <1>2, NextTyped, NextRest, PTL DEF Spec
=============================================================================

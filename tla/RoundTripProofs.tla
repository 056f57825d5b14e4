--------------------------- MODULE RoundTripProofs ---------------------------
(***************************************************************************)
(* Theorems of RoundTrip, for every tree, every list of arguments, every   *)
(* destination and every order in which the tasks end.                     *)
(***************************************************************************)
EXTENDS RoundTrip, NameLemmas, TaskLemmas

-----------------------------------------------------------------------------
(* What parzip knows of a file. *)

Stats == {get_unix_stats(tree, x) : x \in NamesFound(tree, args)}

(* What the assumption says of a tree. *)
LEMMA TreeFacts ==
  ASSUME tree \in Trees
  PROVE  /\ IsFileSystem(tree)
         /\ \A p \in DOMAIN tree : tree[p] \in Node /\ p \in Seq(FileName) /\ p \in Seq(Name)
BY RoundTripAssumption, FileNamesAreNames DEF IsFileSystem

(* What it says of the arguments. *)
LEMMA ArgumentFacts ==
  ASSUME args \in Arguments
  PROVE  args \in Seq(Name)
BY RoundTripAssumption DEF Name

(* A name that was found is of something that was chosen. *)
LEMMA FoundIsChosen ==
  ASSUME tree \in Trees, args \in Arguments, NEW x \in NamesFound(tree, args)
  PROVE  x \in Name /\ Path(x) \in Chosen
<1>1. PICK i \in DOMAIN args : x \in NamesBelow(tree, args[i])
  BY DEF NamesFound
<1>2. PICK p \in FoundBelow(tree, args[i]) : x = NameOf(args[i], p)
  BY <1>1 DEF NamesBelow
<1>3. args[i] \in Name
  BY ArgumentFacts, ElementOfSeq, LenProperties
<1>4. x \in Name /\ Path(x) = p
  BY <1>2, <1>3, TreeFacts, NameOfFacts
<1> QED
  BY <1>4 DEF FoundBelow, Chosen

(* And everything that was chosen is found. *)
LEMMA ChosenIsFound ==
  ASSUME tree \in Trees, args \in Arguments, NEW p \in Chosen
  PROVE  \E x \in NamesFound(tree, args) : Path(x) = p
<1>1. PICK i \in DOMAIN args : IsPrefix(Path(args[i]), p)
  BY DEF Chosen
<1>2. p \in FoundBelow(tree, args[i])
  BY <1>1 DEF FoundBelow, Chosen
<1>3. args[i] \in Name
  BY ArgumentFacts, ElementOfSeq, LenProperties
<1>4. Path(NameOf(args[i], p)) = p
  BY <1>2, <1>3, TreeFacts, NameOfFacts
<1>5. NameOf(args[i], p) \in NamesFound(tree, args)
  BY <1>2 DEF NamesFound, NamesBelow
<1> QED
  BY <1>4, <1>5

(* The record of a file, from its node. *)
StatOf(fi, n) ==
  /\ fi.uid = n.uid % 65536 /\ fi.gid = n.gid % 65536
  /\ fi.atime = n.atime /\ fi.mtime = n.mtime
  /\ fi.kind = n.kind /\ fi.mode = n.mode
  /\ fi.fsize \in Nat
  /\ n.kind \in {"file", "link"} => fi.fsize = Len(n.body)
  /\ n.kind = "chr" => fi.fsize = 0

(* What parzip knows of a file is of something that was chosen. *)
LEMMA StatFacts ==
  ASSUME tree \in Trees, args \in Arguments, NEW fi \in Stats
  PROVE  /\ fi.fname \in NamesFound(tree, args)
         /\ fi.fname \in Name /\ Path(fi.fname) \in Chosen /\ Path(fi.fname) \in DOMAIN tree
         /\ tree[Path(fi.fname)] \in Node
         /\ StatOf(fi, tree[Path(fi.fname)])
<1>1. PICK x \in NamesFound(tree, args) : fi = get_unix_stats(tree, x)
  BY DEF Stats
<1> PICK p : p = Path(x)
  OBVIOUS
<1>2. x \in Name /\ p \in Chosen /\ p \in DOMAIN tree
  BY FoundIsChosen DEF Chosen
<1> PICK n : n = tree[p]
  OBVIOUS
<1>3. n \in Node
  BY <1>2, TreeFacts
<1>4. fi.fname = x
  BY <1>1 DEF get_unix_stats
<1>5. /\ fi.uid = U16(n.uid) /\ fi.gid = U16(n.gid) /\ fi.atime = n.atime /\ fi.mtime = n.mtime
      /\ fi.kind = n.kind /\ fi.mode = n.mode
  BY <1>1 DEF get_unix_stats
<1>6. fi.fsize = CASE n.kind = "dir" -> DirSize
                   [] n.kind \in {"file", "link"} -> Len(n.body)
                   [] OTHER -> 0
  BY <1>1 DEF get_unix_stats
<1>7. Len(n.body) \in Nat /\ DirSize \in Nat
  BY <1>3, FormatAssumption, LenProperties DEF Node
<1> QED
  BY <1>2, <1>3, <1>4, <1>5, <1>6, <1>7 DEF StatOf, U16

-----------------------------------------------------------------------------
(* The record of an entry. *)

(* What compress_entry makes of a body. *)
ResultOf(fi, method, body) ==
  [entrytype |-> IF fi.kind = "link" THEN "file" ELSE fi.kind,
   cformat |-> method, crc32 |-> body, data |-> Encode(method, body),
   additional |-> IF fi.kind = "chr" THEN fi.device ELSE IF fi.kind = "link" THEN body ELSE << >>]

HeaderOf(fi, method, body, offset) == LocalHeader(fi, ResultOf(fi, method, body), offset)

EntryNameOf(fi) == EntryName(fi, IF fi.kind = "link" THEN "file" ELSE fi.kind)

(* compress_entry, by the kind of the file. *)
LEMMA CompressIs ==
  ASSUME NEW fs, NEW fi, NEW method
  PROVE  compress_entry(fs, fi, method) =
           ResultOf(fi, method, IF fi.kind \in {"file", "link"} THEN fs[Path(fi.fname)].body ELSE << >>)
BY DEF compress_entry, ResultOf

(* The extra fields of a header of parzip, in the order it writes them. *)
LEMMA ExtraFields ==
  ASSUME NEW u, NEW c, NEW o, NEW fi, NEW d
  PROVE  LET extra == <<pack_zip64(u, c, o), pack_unix_extra(fi, d)>>
         IN  /\ Field(extra, ZIP_EXTRA_ZIP64) = pack_zip64(u, c, o)
             /\ Field(extra, ZIP_EXTRA_UNIX) = pack_unix_extra(fi, d)
<1> PICK a : a = pack_zip64(u, c, o)
  OBVIOUS
<1> PICK b : b = pack_unix_extra(fi, d)
  OBVIOUS
<1>1. a.tag = 1 /\ b.tag = 13
  BY DEF pack_zip64, pack_unix_extra, ZIP_EXTRA_ZIP64, ZIP_EXTRA_UNIX
<1> PICK extra : extra = <<a, b>>
  OBVIOUS
<1>2. DOMAIN extra = 1..2 /\ extra[1] = a /\ extra[2] = b
  OBVIOUS
<1>3. \A i \in DOMAIN extra : i = 1 \/ i = 2
  BY <1>2
<1>4. Field(extra, 1) = a
  <2>1. 1 \in DOMAIN extra /\ extra[1].tag = 1 /\ \A j \in 1..(1 - 1) : extra[j].tag # 1
    BY <1>1, <1>2
  <2>2. \A i \in DOMAIN extra : extra[i].tag = 1 => i = 1
    BY <1>1, <1>2, <1>3
  <2>3. (CHOOSE i \in DOMAIN extra : extra[i].tag = 1 /\ \A j \in 1..(i - 1) : extra[j].tag # 1) = 1
    BY <2>1, <2>2
  <2> QED
    BY <1>2, <2>3 DEF Field
<1>5. Field(extra, 13) = b
  <2>1. 2 \in DOMAIN extra /\ extra[2].tag = 13 /\ \A j \in 1..(2 - 1) : extra[j].tag # 13
    BY <1>1, <1>2
  <2>2. \A i \in DOMAIN extra : extra[i].tag = 13 => i = 2
    BY <1>1, <1>2, <1>3
  <2>3. (CHOOSE i \in DOMAIN extra : extra[i].tag = 13 /\ \A j \in 1..(i - 1) : extra[j].tag # 13) = 2
    BY <2>1, <2>2
  <2> QED
    BY <1>2, <2>3 DEF Field
<1> QED
  BY <1>4, <1>5 DEF ZIP_EXTRA_ZIP64, ZIP_EXTRA_UNIX

(* What the readers find in a local header. *)
LEMMA HeaderFacts ==
  ASSUME NEW fi, NEW method, NEW body, NEW offset
  PROVE  LET h == HeaderOf(fi, method, body, offset)
         IN  /\ h.kind = "local" /\ h.flags = {} /\ h.crc32 = body /\ h.fname = EntryNameOf(fi)
             /\ h.compression = method
             /\ unpack_zip64_sizes(h).compressed = Len(Encode(method, body))
             /\ unpack_zip64_sizes(h).uncompressed = fi.fsize
             /\ unpack_unix(h).uid = fi.uid /\ unpack_unix(h).gid = fi.gid
             /\ unpack_unix(h).atime = fi.atime /\ unpack_unix(h).mtime = fi.mtime
             /\ unpack_unix(h).data = << >>
<1> PICK r : r = ResultOf(fi, method, body)
  OBVIOUS
<1>1. r.data = Encode(method, body) /\ r.cformat = method /\ r.crc32 = body
      /\ r.entrytype = IF fi.kind = "link" THEN "file" ELSE fi.kind
  BY DEF ResultOf
<1> PICK h : h = HeaderOf(fi, method, body, offset)
  OBVIOUS
<1>2. h = LocalHeader(fi, r, offset)
  BY DEF HeaderOf
<1>3. /\ h.kind = "local" /\ h.flags = {} /\ h.crc32 = r.crc32 /\ h.compression = r.cformat
      /\ h.fname = EntryName(fi, r.entrytype)
      /\ h.extra = <<pack_zip64(fi.fsize, Len(r.data), offset), pack_unix_extra(fi, UpToNul(r.additional))>>
  BY <1>2 DEF LocalHeader
<1> PICK z : z = pack_zip64(fi.fsize, Len(r.data), offset)
  OBVIOUS
<1> PICK u : u = pack_unix_extra(fi, UpToNul(r.additional))
  OBVIOUS
<1>4. Field(h.extra, ZIP_EXTRA_ZIP64) = z /\ Field(h.extra, ZIP_EXTRA_UNIX) = u
  BY <1>3, ExtraFields
<1>5. z.compressed = Len(r.data) /\ z.uncompressed = fi.fsize
  BY DEF pack_zip64
<1>6. u.uid = fi.uid /\ u.gid = fi.gid /\ u.atime = fi.atime /\ u.mtime = fi.mtime
      /\ DOMAIN u = {"tag", "atime", "mtime", "uid", "gid", "data"}
  BY DEF pack_unix_extra
<1>7. unpack_unix(h) = [u EXCEPT !.data = << >>]
  BY <1>4 DEF unpack_unix
<1> QED
  BY <1>1, <1>3, <1>4, <1>5, <1>6, <1>7 DEF unpack_zip64_sizes, EntryNameOf

(* The coders give back what they were given. *)
Method == {"store", "lzma"}

(* What is decoded is what was encoded. *)
LEMMA CodersAgree ==
  ASSUME NEW method \in Method, NEW body \in Seq(Nat)
  PROVE  /\ Decode(method, Encode(method, body)) = body
         /\ Len(Encode(method, body)) \in Nat
         /\ DOMAIN Encode(method, body) = 1..Len(Encode(method, body))
         /\ \A i \in 1..Len(Encode(method, body)) : Encode(method, body)[i].kind = "data"
<1> PICK n \in Nat : n = Len(body)
  BY LenProperties
<1>1. CASE method = "store"
  <2> PICK e : e = Encode(method, body)
    OBVIOUS
  <2>1. e = [i \in 1..n |-> [kind |-> "data", byte |-> body[i]]]
    BY <1>1, LenProperties DEF Encode
  <2>2. DOMAIN e = 1..n /\ \A i \in 1..n : e[i].kind = "data" /\ e[i].byte = body[i]
    BY <2>1
  <2>3. Len(e) = n
    BY <2>1
  <2>4. Decode(method, e) = [i \in 1..n |-> body[i]]
    BY <1>1, <2>2 DEF Decode
  <2>5. [i \in 1..n |-> body[i]] = body
    BY LenProperties
  <2> QED
    BY <2>2, <2>3, <2>4, <2>5
<1>2. CASE method = "lzma"
  <2> PICK cell : cell = [kind |-> "data", method |-> method, body |-> body]
    OBVIOUS
  <2>1. Encode(method, body) = <<cell>> /\ cell.kind = "data" /\ cell.body = body
    BY <1>2 DEF Encode
  <2>2. Decode(method, <<cell>>) = body
    BY <1>2, <2>1 DEF Decode
  <2>3. Len(<<cell>>) = 1 /\ DOMAIN <<cell>> = 1..1 /\ <<cell>>[1] = cell
    OBVIOUS
  <2>4. \A i \in 1..1 : <<cell>>[i].kind = "data"
    BY <2>1, <2>3
  <2> QED
    BY <2>1, <2>2, <2>3, <2>4
<1> QED
  BY <1>1, <1>2 DEF Method

(* The name of an entry has the path of its file. *)
LEMMA EntryNamePath ==
  ASSUME NEW fi, fi.fname \in Name
  PROVE  EntryNameOf(fi) \in Name /\ Path(EntryNameOf(fi)) = Path(fi.fname)
<1>1. Append(fi.fname, SLASH) \in Name
  BY AppendProperties DEF Name, SLASH
<1>2. Path(Append(fi.fname, SLASH)) = Path(fi.fname)
  BY PathOfSlashed
<1> QED
  BY <1>1, <1>2 DEF EntryNameOf, EntryName

-----------------------------------------------------------------------------
(* The entries. *)

(* What may be packed: a file, the method, what the queue gets. *)
Makings ==
  {m \in Stats \X Method \X Seq(Nat) :
     /\ m[1].kind # "fifo"
     /\ IF m[1].kind \in {"file", "link"} THEN m[3] \in Bodies(Path(m[1].fname)) ELSE m[3] = << >>}

MadeHeader(m, offset) == HeaderOf(m[1], m[2], m[3], offset)

(* The local header, the central header and the data of an entry. *)
IsEntry(M, lh, ch, data) ==
  \E m \in M : /\ ch.offset \in Nat
               /\ lh = MadeHeader(m, ch.offset)
               /\ ch = CentralHeader(m[1], lh, ch.offset)
               /\ data = Encode(m[2], m[3])

SizeOf(lh) == unpack_zip64_sizes(lh).compressed

(* The same, of a reader. *)
IsRead(M, e) ==
  \E lh : IsEntry(M, lh, e.central, e.data) /\ e.local = [lh EXCEPT !.size = SizeOf(lh)]

(* The headers say what the file is, whatever size has been filled in. *)
Tells(lh, ch, data) ==
  LET p == Path(ch.fname)
      n == tree[p]
  IN  /\ ch.kind = "central" /\ ch.fname \in Name /\ p \in Chosen /\ n \in Node
      /\ \E fi \in Stats : ch.fname = EntryNameOf(fi) /\ Path(fi.fname) = p
      /\ ch.type = n.kind /\ n.kind # "fifo" /\ ch.mode = n.mode
      /\ lh.kind = "local" /\ lh.flags = {} /\ lh.fname = ch.fname
      /\ unpack_unix(lh).uid = n.uid % 65536 /\ unpack_unix(lh).gid = n.gid % 65536
      /\ unpack_unix(lh).atime = n.atime /\ unpack_unix(lh).mtime = n.mtime
      /\ unpack_unix(lh).data = << >>
      /\ SizeOf(lh) = Len(data) /\ Len(data) \in Nat /\ DOMAIN data = 1..Len(data)
      /\ \A i \in 1..Len(data) : data[i].kind = "data"
      /\ lh.crc32 \in Seq(Nat) /\ Decode(ch.compression_method, data) = lh.crc32
      /\ IF n.kind \in {"file", "link"} THEN lh.crc32 \in Bodies(p) ELSE lh.crc32 = << >>
      /\ n.kind \in {"file", "link"} => unpack_zip64_sizes(lh).uncompressed = Len(n.body)
      /\ n.kind = "chr" => unpack_zip64_sizes(lh).uncompressed = 0

(* What the headers of parzip tell a reader of the file they are for. *)
LEMMA EntryTells ==
  ASSUME tree \in Trees, args \in Arguments, NEW lh, NEW ch, NEW data,
         IsEntry(Makings, lh, ch, data)
  PROVE  Tells(lh, ch, data)
<1>1. PICK m \in Makings : /\ ch.offset \in Nat
                           /\ lh = MadeHeader(m, ch.offset)
                           /\ ch = CentralHeader(m[1], lh, ch.offset)
                           /\ data = Encode(m[2], m[3])
  BY DEF IsEntry
<1> PICK fi, method, body : fi = m[1] /\ method = m[2] /\ body = m[3]
  OBVIOUS
<1>2. /\ fi \in Stats /\ method \in Method /\ body \in Seq(Nat) /\ fi.kind # "fifo"
      /\ IF fi.kind \in {"file", "link"} THEN body \in Bodies(Path(fi.fname)) ELSE body = << >>
  BY DEF Makings
<1> PICK p : p = Path(fi.fname)
  OBVIOUS
<1> PICK n : n = tree[p]
  OBVIOUS
<1>3. fi.fname \in Name /\ p \in Chosen /\ n \in Node /\ StatOf(fi, n)
  BY <1>2, StatFacts
<1>4. lh = HeaderOf(fi, method, body, ch.offset)
  BY <1>1 DEF MadeHeader
<1>5. /\ lh.kind = "local" /\ lh.flags = {} /\ lh.crc32 = body /\ lh.fname = EntryNameOf(fi)
      /\ lh.compression = method
      /\ unpack_zip64_sizes(lh).compressed = Len(Encode(method, body))
      /\ unpack_zip64_sizes(lh).uncompressed = fi.fsize
      /\ unpack_unix(lh).uid = fi.uid /\ unpack_unix(lh).gid = fi.gid
      /\ unpack_unix(lh).atime = fi.atime /\ unpack_unix(lh).mtime = fi.mtime
      /\ unpack_unix(lh).data = << >>
  BY <1>4, HeaderFacts
<1>6. /\ ch.kind = "central" /\ ch.fname = lh.fname /\ ch.type = fi.kind /\ ch.mode = fi.mode
      /\ ch.compression_method = lh.compression
  BY <1>1 DEF CentralHeader
<1>7. EntryNameOf(fi) \in Name /\ Path(EntryNameOf(fi)) = p
  BY <1>3, EntryNamePath
<1>8. /\ Decode(method, data) = body
      /\ Len(data) \in Nat /\ DOMAIN data = 1..Len(data)
      /\ \A i \in 1..Len(data) : data[i].kind = "data"
  BY <1>1, <1>2, CodersAgree
<1>9. Path(ch.fname) = p /\ ch.fname = EntryNameOf(fi)
  BY <1>5, <1>6, <1>7
<1>10. /\ ch.type = n.kind /\ n.kind # "fifo" /\ ch.mode = n.mode
       /\ fi.uid = n.uid % 65536 /\ fi.gid = n.gid % 65536 /\ fi.atime = n.atime /\ fi.mtime = n.mtime
       /\ fi.kind = n.kind
       /\ n.kind \in {"file", "link"} => fi.fsize = Len(n.body)
       /\ n.kind = "chr" => fi.fsize = 0
  BY <1>2, <1>3, <1>6 DEF StatOf
<1>11. SizeOf(lh) = Len(data)
  BY <1>1, <1>5 DEF SizeOf
<1>12. \E g \in Stats : ch.fname = EntryNameOf(g) /\ Path(g.fname) = p
  BY <1>2, <1>9
<1>13. /\ lh.crc32 \in Seq(Nat) /\ Decode(ch.compression_method, data) = lh.crc32
       /\ IF n.kind \in {"file", "link"} THEN lh.crc32 \in Bodies(p) ELSE lh.crc32 = << >>
  BY <1>2, <1>5, <1>6, <1>8, <1>10
<1> QED
  BY <1>3, <1>5, <1>6, <1>7, <1>8, <1>9, <1>10, <1>11, <1>12, <1>13 DEF Tells

(* What a reader fills in is none of it. *)
LEMMA ReadTells ==
  ASSUME tree \in Trees, args \in Arguments, NEW e, IsRead(Makings, e)
  PROVE  Tells(e.local, e.central, e.data)
<1>1. PICK lh : IsEntry(Makings, lh, e.central, e.data) /\ e.local = [lh EXCEPT !.size = SizeOf(lh)]
  BY DEF IsRead
<1>2. Tells(lh, e.central, e.data)
  BY <1>1, EntryTells
<1> PICK h : h = e.local
  OBVIOUS
<1>3. PICK m : lh = MadeHeader(m, e.central.offset)
  BY <1>1 DEF IsEntry
<1>4. DOMAIN lh = {"kind", "flags", "compression", "crc32", "size", "fname", "extra"}
  BY <1>3 DEF MadeHeader, HeaderOf, LocalHeader
<1>5. h.kind = lh.kind /\ h.flags = lh.flags /\ h.fname = lh.fname /\ h.crc32 = lh.crc32
      /\ h.extra = lh.extra
  BY <1>1, <1>4
<1>6. unpack_unix(h) = unpack_unix(lh) /\ unpack_zip64_sizes(h) = unpack_zip64_sizes(lh)
  BY <1>5 DEF unpack_unix, unpack_zip64_sizes
<1>7. SizeOf(h) = SizeOf(lh)
  BY <1>6 DEF SizeOf
<1> QED
  BY <1>2, <1>5, <1>6, <1>7 DEF Tells

(* Sequences of whatever. *)
IsSeq(s) == \E S : s \in Seq(S)

(* Sequences of whatever elements. *)
LEMMA IsSeqFacts ==
  ASSUME NEW s, IsSeq(s)
  PROVE  Len(s) \in Nat /\ DOMAIN s = 1..Len(s) /\ s = [i \in 1..Len(s) |-> s[i]]
BY LenProperties DEF IsSeq

(* Two of them, one behind the other. *)
LEMMA IsSeqConcat ==
  ASSUME NEW s, IsSeq(s), NEW t, IsSeq(t)
  PROVE  /\ IsSeq(s \o t) /\ Len(s \o t) = Len(s) + Len(t)
         /\ \A i \in 1..Len(s) : (s \o t)[i] = s[i]
         /\ \A i \in 1..Len(t) : (s \o t)[Len(s) + i] = t[i]
<1>1. PICK S : s \in Seq(S)
  BY DEF IsSeq
<1>2. PICK T : t \in Seq(T)
  BY DEF IsSeq
<1> PICK U : U = S \cup T
  OBVIOUS
<1>3. s \in Seq(U) /\ t \in Seq(U)
  BY <1>1, <1>2
<1>4. /\ s \o t \in Seq(U) /\ Len(s \o t) = Len(s) + Len(t)
      /\ \A i \in 1..(Len(s) + Len(t)) : (s \o t)[i] = IF i <= Len(s) THEN s[i] ELSE t[i - Len(s)]
  BY <1>3, ConcatProperties
<1>5. Len(s) \in Nat /\ Len(t) \in Nat
  BY <1>3, LenProperties
<1>6. ASSUME NEW i \in 1..Len(t) PROVE (s \o t)[Len(s) + i] = t[i]
  <2>1. Len(s) + i \in 1..(Len(s) + Len(t)) /\ ~(Len(s) + i <= Len(s)) /\ (Len(s) + i) - Len(s) = i
    BY <1>5
  <2> QED
    BY <1>4, <2>1
<1> QED
  BY <1>4, <1>5, <1>6 DEF IsSeq

(* One more element. *)
LEMMA IsSeqAppend ==
  ASSUME NEW s, IsSeq(s), NEW e
  PROVE  /\ IsSeq(Append(s, e)) /\ Len(Append(s, e)) = Len(s) + 1
         /\ \A i \in 1..Len(s) : Append(s, e)[i] = s[i]
         /\ Append(s, e)[Len(s) + 1] = e
<1>1. PICK S : s \in Seq(S)
  BY DEF IsSeq
<1> PICK U : U = S \cup {e}
  OBVIOUS
<1>2. s \in Seq(U) /\ e \in U
  BY <1>1
<1>3. Append(s, e) \in Seq(U)
  BY <1>2
<1> QED
  BY <1>2, <1>3, AppendProperties DEF IsSeq

-----------------------------------------------------------------------------
(* The layout of an archive. *)

DataAt(a, p, n) == [k \in 1..n |-> a[p + k]]

Heads(c) == [i \in 1..Len(c) |-> c[i].offset + 1]

(* Before end there are the entries of c, one behind the other. *)
Layout(M, a, c, end) ==
  /\ end \in 1..(Len(a) + 1)
  /\ HeadOr(Heads(c), end, 1) = 1
  /\ \A i \in 1..Len(c) :
       LET p == c[i].offset + 1
           n == SizeOf(a[p])
       IN  /\ p \in 1..(end - 1) /\ n \in Nat /\ p + 1 + n = HeadOr(Heads(c), end, i + 1) /\ p + n < end
           /\ IsEntry(M, a[p], c[i], DataAt(a, p, n))
  /\ \A p \in 1..(end - 1) :
       \/ a[p].kind = "data"
       \/ a[p].kind = "local" /\ \E i \in 1..Len(c) : p = c[i].offset + 1

(* At end there is the directory. *)
Sealed(a, c, end) ==
  /\ Len(a) = end + Len(c) + 2
  /\ \A i \in 1..Len(c) : a[end + i - 1] = c[i]
  /\ a[end + Len(c)] = [kind |-> "z64end", entries |-> Len(c)]
  /\ a[end + Len(c) + 1] = [kind |-> "z64loc"]
  /\ a[end + Len(c) + 2] = [kind |-> "end", entries |-> Anonymous]

(* The positions of the entries of an archive. *)
LEMMA HeadsFacts ==
  ASSUME NEW c, Len(c) \in Nat
  PROVE  Len(Heads(c)) = Len(c) /\ \A i \in 1..Len(c) : Heads(c)[i] = c[i].offset + 1
BY DEF Heads

(* An archive is laid out whatever more could have been packed. *)
LEMMA LayoutGrows ==
  ASSUME NEW M, NEW N, M \subseteq N, NEW a, NEW c, NEW end, Layout(M, a, c, end)
  PROVE  Layout(N, a, c, end)
<1>1. ASSUME NEW lh, NEW ch, NEW data, IsEntry(M, lh, ch, data) PROVE IsEntry(N, lh, ch, data)
  BY <1>1 DEF IsEntry
<1> QED
  BY <1>1 DEF Layout

(* An archive without an entry is laid out. *)
LEMMA EmptyLayout ==
  ASSUME NEW M
  PROVE  Layout(M, << >>, << >>, 1)
BY HeadsFacts DEF Layout, HeadOr

(* Another entry behind the last. *)
Follows(M, a, lh, ch, data) ==
  /\ IsSeq(data) /\ IsEntry(M, lh, ch, data)
  /\ ch.offset = Len(a) /\ lh.kind = "local" /\ SizeOf(lh) = Len(data)
  /\ \A i \in 1..Len(data) : data[i].kind = "data"

Continued(a, c, lh, ch, data, b, d) ==
  /\ Len(b) = Len(a) + 1 + Len(data) /\ b[Len(a) + 1] = lh
  /\ \A i \in 1..Len(a) : b[i] = a[i]
  /\ \A i \in 1..Len(data) : b[Len(a) + 1 + i] = data[i]
  /\ Len(d) = Len(c) + 1 /\ d[Len(c) + 1] = ch
  /\ \A i \in 1..Len(c) : d[i] = c[i]

(* It stays so with one entry more at its end. *)
LEMMA LayoutContinued ==
  ASSUME NEW M, NEW a, IsSeq(a), NEW c, IsSeq(c), Layout(M, a, c, Len(a) + 1),
         NEW lh, NEW ch, NEW data, Follows(M, a, lh, ch, data),
         NEW b, NEW d, Continued(a, c, lh, ch, data, b, d)
  PROVE  Layout(M, b, d, Len(b) + 1)
<1>0. Len(a) \in Nat /\ Len(c) \in Nat /\ Len(data) \in Nat /\ IsSeq(data)
  BY IsSeqFacts DEF Follows
<1> PICK la \in Nat : la = Len(a)
  BY <1>0
<1> PICK lc \in Nat : lc = Len(c)
  BY <1>0
<1> PICK ld \in Nat : ld = Len(data)
  BY <1>0
<1>2. Len(d) = lc + 1 /\ (\A i \in 1..lc : d[i] = c[i]) /\ d[lc + 1] = ch
  BY DEF Continued
<1>4. /\ Len(b) = la + 1 + ld /\ b[la + 1] = lh
      /\ \A i \in 1..la : b[i] = a[i]
      /\ \A i \in 1..ld : b[la + 1 + i] = data[i]
  BY DEF Continued
<1> PICK end \in Nat : end = la + ld + 2
  OBVIOUS
<1>5. Len(b) + 1 = end
  BY <1>4
<1>12. Len(Heads(c)) = lc /\ \A i \in 1..lc : Heads(c)[i] = c[i].offset + 1
  BY HeadsFacts
<1>13. Len(Heads(d)) = lc + 1 /\ \A i \in 1..(lc + 1) : Heads(d)[i] = d[i].offset + 1
  <2>1. Len(d) \in Nat /\ Len(d) = lc + 1
    BY <1>2
  <2> QED
    BY <2>1, HeadsFacts
<1>6. ASSUME NEW i \in 1..(lc + 1)
      PROVE  /\ HeadOr(Heads(d), end, i) = HeadOr(Heads(c), la + 1, i)
             /\ i <= lc => HeadOr(Heads(c), la + 1, i) = c[i].offset + 1
             /\ i = lc + 1 => HeadOr(Heads(c), la + 1, i) = la + 1
  <2>1. Len(Heads(c)) = lc /\ Len(Heads(d)) = lc + 1
    BY <1>12, <1>13
  <2>2. i # Len(Heads(d)) + 1
    BY <2>1
  <2>3. Heads(d)[i] = d[i].offset + 1
    BY <1>13
  <2>4. CASE i = lc + 1
    <3>1. d[i].offset + 1 = la + 1
      BY <1>2, <2>4 DEF Follows
    <3> QED
      BY <2>1, <2>2, <2>3, <2>4, <3>1 DEF HeadOr
  <2>5. CASE i # lc + 1
    <3>1. i \in 1..lc
      BY <2>5
    <3>2. Heads(c)[i] = c[i].offset + 1 /\ d[i] = c[i]
      BY <1>2, <1>12, <3>1
    <3> QED
      BY <2>1, <2>2, <2>3, <2>5, <3>1, <3>2 DEF HeadOr
  <2> QED
    BY <2>4, <2>5
<1>7. HeadOr(Heads(d), end, lc + 2) = end
  <2>1. Len(Heads(d)) = lc + 1
    BY <1>13
  <2> QED
    BY <2>1 DEF HeadOr
<1>8. HeadOr(Heads(d), end, 1) = 1
  BY <1>6 DEF Layout
<1>9. ASSUME NEW i \in 1..Len(d)
      PROVE  LET p == d[i].offset + 1
                 n == SizeOf(b[p])
             IN  /\ p \in 1..(end - 1) /\ n \in Nat /\ p + 1 + n = HeadOr(Heads(d), end, i + 1) /\ p + n < end
                 /\ IsEntry(M, b[p], d[i], DataAt(b, p, n))
  <2> PICK p : p = d[i].offset + 1
    OBVIOUS
  <2> PICK n : n = SizeOf(b[p])
    OBVIOUS
  <2>1. CASE i = lc + 1
    <3>1. d[i] = ch /\ p = la + 1
      BY <1>2, <2>1 DEF Follows
    <3>2. b[p] = lh /\ n = ld
      BY <1>4, <3>1 DEF Follows
    <3>3. DataAt(b, p, n) = data
      <4>1. data = [k \in 1..ld |-> data[k]]
        BY <1>0, IsSeqFacts
      <4>2. \A k \in 1..ld : b[p + k] = data[k]
        BY <1>4, <3>1
      <4> QED
        BY <3>2, <4>1, <4>2 DEF DataAt
    <3>4. p + 1 + n = HeadOr(Heads(d), end, i + 1)
      <4>1. i + 1 = lc + 2 /\ p + 1 + n = end
        BY <2>1, <3>1, <3>2
      <4> QED
        BY <1>7, <4>1
    <3>5. p \in 1..(end - 1) /\ n \in Nat /\ p + n < end
      BY <3>1, <3>2
    <3>6. IsEntry(M, b[p], d[i], DataAt(b, p, n))
      BY <3>1, <3>2, <3>3 DEF Follows
    <3> QED
      BY <3>4, <3>5, <3>6
  <2>2. CASE i # lc + 1
    <3>1. i \in 1..lc /\ d[i] = c[i] /\ p = c[i].offset + 1
      BY <1>2, <2>2
    <3> PICK m : m = SizeOf(a[p])
      OBVIOUS
    <3>2. /\ p \in 1..la /\ m \in Nat /\ p + 1 + m = HeadOr(Heads(c), la + 1, i + 1) /\ p + m < la + 1
          /\ IsEntry(M, a[p], c[i], DataAt(a, p, m))
      BY <3>1 DEF Layout
    <3>3. b[p] = a[p] /\ n = m
      BY <1>4, <3>2
    <3>4. DataAt(b, p, n) = DataAt(a, p, m)
      <4>1. \A k \in 1..m : p + k \in 1..la
        <5>1. p \in Nat /\ m \in Nat /\ p + m < la + 1 /\ la \in Nat
          BY <3>2
        <5> QED
          BY ONLY <5>1
      <4>2. \A k \in 1..m : b[p + k] = a[p + k]
        BY <1>4, <4>1
      <4> QED
        BY <3>3, <4>2 DEF DataAt
    <3>5. p + 1 + n = HeadOr(Heads(d), end, i + 1)
      <4>1. i + 1 \in 1..(lc + 1)
        BY <3>1
      <4> QED
        BY <1>6, <3>2, <3>3, <4>1
    <3>6. p \in 1..(end - 1) /\ n \in Nat /\ p + n < end
      <4>1. p \in Nat /\ p >= 1 /\ m \in Nat /\ p + m < la + 1 /\ n = m /\ p <= la
        BY <3>2, <3>3
      <4> QED
        BY <4>1
    <3>7. IsEntry(M, b[p], d[i], DataAt(b, p, n))
      BY <3>1, <3>2, <3>3, <3>4
    <3> QED
      BY <3>5, <3>6, <3>7
  <2> QED
    BY <2>1, <2>2
<1>10. ASSUME NEW p \in 1..(end - 1)
       PROVE  \/ b[p].kind = "data"
              \/ b[p].kind = "local" /\ \E i \in 1..Len(d) : p = d[i].offset + 1
  <2>1. CASE p <= la
    <3>1. p \in 1..((la + 1) - 1) /\ b[p] = a[p]
      BY <1>4, <2>1
    <3>2. \/ a[p].kind = "data"
          \/ a[p].kind = "local" /\ \E i \in 1..Len(c) : p = c[i].offset + 1
      BY <3>1 DEF Layout
    <3>3. ASSUME NEW i \in 1..Len(c), p = c[i].offset + 1 PROVE \E j \in 1..Len(d) : p = d[j].offset + 1
      <4>1. i \in 1..Len(d) /\ d[i] = c[i]
        BY <1>2
      <4> QED
        BY <3>3, <4>1
    <3> QED
      BY <3>1, <3>2, <3>3
  <2>2. CASE p = la + 1
    <3>1. lc + 1 \in 1..Len(d) /\ d[lc + 1].offset + 1 = p
      BY <1>2, <2>2 DEF Follows
    <3> QED
      BY <1>4, <2>2, <3>1 DEF Follows
  <2>3. CASE p > la + 1
    <3> PICK k : k = p - (la + 1)
      OBVIOUS
    <3>1. k \in 1..ld /\ la + 1 + k = p
      BY <2>3
    <3>2. b[la + 1 + k] = data[k] /\ data[k].kind = "data"
      BY <1>4, <3>1 DEF Follows
    <3> QED
      BY ONLY <3>1, <3>2
  <2> QED
    BY <2>1, <2>2, <2>3
<1>11. Layout(M, b, d, end)
  BY <1>5, <1>8, <1>9, <1>10 DEF Layout
<1> QED
  BY <1>5, <1>11

(* The same, of the records and the data that parzip writes. *)
LEMMA LayoutAppend ==
  ASSUME NEW M, NEW a, IsSeq(a), NEW c, IsSeq(c), Layout(M, a, c, Len(a) + 1),
         NEW lh, NEW ch, NEW data, Follows(M, a, lh, ch, data),
         NEW b, b = Append(a, lh) \o data, NEW d, d = Append(c, ch)
  PROVE  IsSeq(b) /\ IsSeq(d) /\ Layout(M, b, d, Len(b) + 1)
<1>0. Len(a) \in Nat /\ Len(c) \in Nat /\ Len(data) \in Nat /\ IsSeq(data)
  BY IsSeqFacts DEF Follows
<1> PICK x : x = Append(a, lh)
  OBVIOUS
<1>1. IsSeq(x) /\ Len(x) = Len(a) + 1 /\ (\A i \in 1..Len(a) : x[i] = a[i]) /\ x[Len(a) + 1] = lh
  BY IsSeqAppend
<1>2. IsSeq(d) /\ Len(d) = Len(c) + 1 /\ (\A i \in 1..Len(c) : d[i] = c[i]) /\ d[Len(c) + 1] = ch
  BY IsSeqAppend
<1>6. b = x \o data
  OBVIOUS
<1>3. /\ IsSeq(b) /\ Len(b) = Len(x) + Len(data)
      /\ \A i \in 1..Len(x) : b[i] = x[i]
      /\ \A i \in 1..Len(data) : b[Len(x) + i] = data[i]
  BY <1>0, <1>1, <1>6, IsSeqConcat
<1>4. Continued(a, c, lh, ch, data, b, d)
  BY <1>0, <1>1, <1>2, <1>3 DEF Continued
<1>5. Layout(M, b, d, Len(b) + 1)
  BY <1>4, LayoutContinued
<1> QED
  BY <1>2, <1>3, <1>5

-----------------------------------------------------------------------------
(* Reading it. *)

LEMMA SizedFacts ==
  ASSUME NEW a, IsSeq(a)
  PROVE  /\ IsSeq(Sized(a)) /\ Len(Sized(a)) = Len(a) /\ DOMAIN Sized(a) = 1..Len(a)
         /\ \A p \in 1..Len(a) :
              Sized(a)[p] = IF a[p].kind = "local" THEN [a[p] EXCEPT !.size = SizeOf(a[p])] ELSE a[p]
<1> PICK n \in Nat : n = Len(a)
  BY IsSeqFacts
<1>1. DOMAIN a = 1..n
  BY IsSeqFacts
<1> PICK s : s = Sized(a)
  OBVIOUS
<1>2. s = [p \in 1..n |-> IF a[p].kind = "local" THEN [a[p] EXCEPT !.size = SizeOf(a[p])] ELSE a[p]]
  BY <1>1 DEF Sized, SizeOf
<1> PICK S : S = {s[p] : p \in 1..n}
  OBVIOUS
<1>3. s \in [1..n -> S]
  BY <1>2
<1>4. s \in Seq(S) /\ Len(s) = n
  BY <1>3, FunctionIsSeq
<1> QED
  BY <1>2, <1>4 DEF IsSeq

(* A slice of a sequence. *)
LEMMA SliceIs ==
  ASSUME NEW s, IsSeq(s), NEW p \in Nat, NEW m \in Nat, p + m <= Len(s)
  PROVE  SubSeq(s, p + 1, p + m) = DataAt(s, p, m)
<1>1. PICK S : s \in Seq(S)
  BY DEF IsSeq
<1>2. Len(s) \in Nat
  BY <1>1, LenProperties
<1> PICK x : x = SubSeq(s, p + 1, p + m)
  OBVIOUS
<1>3. p + 1 \in Int /\ p + m \in Int /\ \A k \in (p + 1)..(p + m) : s[k] \in S
  <2>1. \A k \in (p + 1)..(p + m) : k \in 1..Len(s)
    BY <1>2
  <2> QED
    BY <1>1, <2>1, ElementOfSeq
<1>4. /\ x \in Seq(S)
      /\ Len(x) = IF p + 1 <= p + m THEN (p + m) - (p + 1) + 1 ELSE 0
      /\ \A k \in 1..((p + m) - (p + 1) + 1) : x[k] = s[(p + 1) + k - 1]
  BY <1>3, SubSeqProperties
<1>5. (p + m) - (p + 1) + 1 = m /\ \A k \in 1..m : (p + 1) + k - 1 = p + k
  OBVIOUS
<1>6. Len(x) = m /\ \A k \in 1..m : x[k] = s[p + k]
  BY <1>4, <1>5
<1>7. x = [k \in 1..Len(x) |-> x[k]]
  BY <1>4, LenProperties
<1> QED
  BY <1>6, <1>7 DEF DataAt

(* What is at a place of a sealed archive. *)
LEMMA CellFacts ==
  ASSUME tree \in Trees, args \in Arguments, NEW a, IsSeq(a), NEW c, IsSeq(c), NEW end,
         Layout(Makings, a, c, end), Sealed(a, c, end)
  PROVE  /\ \A i \in 1..Len(c) : c[i].offset + 1 \in 1..(end - 1)
         /\ \A i \in 1..Len(c) : Tells(a[c[i].offset + 1], c[i],
                                       DataAt(a, c[i].offset + 1, SizeOf(a[c[i].offset + 1])))
         /\ \A p \in 1..Len(a) : a[p].kind = "local" => \E i \in 1..Len(c) : p = c[i].offset + 1
<1> PICK n \in Nat : n = Len(c)
  BY IsSeqFacts
<1>0. Len(a) \in Nat /\ end \in 1..(Len(a) + 1) /\ Len(a) = end + n + 2
  BY IsSeqFacts DEF Layout, Sealed
<1>1. ASSUME NEW i \in 1..n
      PROVE  Tells(a[c[i].offset + 1], c[i], DataAt(a, c[i].offset + 1, SizeOf(a[c[i].offset + 1])))
  BY EntryTells DEF Layout
<1>2. \A i \in 1..n : c[i].kind = "central"
  BY <1>1 DEF Tells
<1>3. ASSUME NEW p \in 1..Len(a), a[p].kind = "local" PROVE \E i \in 1..n : p = c[i].offset + 1
  <2>1. CASE p < end
    <3>1. p \in 1..(end - 1)
      BY <1>0, <2>1
    <3> QED
      BY <1>3, <3>1 DEF Layout
  <2>2. CASE p >= end /\ p < end + n
    <3> PICK i \in 1..n : p = end + i - 1
      <4>1. p - end + 1 \in 1..n /\ p = end + (p - end + 1) - 1
        BY <1>0, <2>2
      <4> QED
        BY <4>1
    <3>1. a[p].kind = "central"
      BY <1>2 DEF Sealed
    <3> QED
      BY <1>3, <3>1
  <2>3. CASE p >= end + n
    <3>1. p = end + n \/ p = end + n + 1 \/ p = end + n + 2
      BY <1>0, <2>3
    <3>2. a[p] = [kind |-> "z64end", entries |-> n] \/ a[p] = [kind |-> "z64loc"]
          \/ a[p] = [kind |-> "end", entries |-> Anonymous]
      BY <3>1 DEF Sealed
    <3>3. a[p].kind # "local"
      BY <3>2
    <3> QED
      BY <1>3, <3>3
  <2> QED
    BY <1>0, <2>1, <2>2, <2>3
<1>4. \A i \in 1..n : c[i].offset + 1 \in 1..(end - 1)
  BY DEF Layout
<1> QED
  BY <1>1, <1>3, <1>4

(* The readers find all that parzip has written. *)
LEMMA SealedIsRead ==
  ASSUME tree \in Trees, args \in Arguments, NEW a, IsSeq(a), NEW c, IsSeq(c), NEW end,
         Layout(Makings, a, c, end), Sealed(a, c, end)
  PROVE  /\ Opens(Sized(a))
         /\ DOMAIN Read(Sized(a)) = 1..Len(c)
         /\ \A i \in 1..Len(c) : Read(Sized(a))[i].central = c[i] /\ IsRead(Makings, Read(Sized(a))[i])
<1> PICK n \in Nat : n = Len(c)
  BY IsSeqFacts
<1> PICK s : s = Sized(a)
  OBVIOUS
<1> PICK heads : heads = Heads(c)
  OBVIOUS
<1>0. Len(a) \in Nat /\ end \in 1..(Len(a) + 1) /\ Len(a) = end + n + 2
  BY IsSeqFacts DEF Layout, Sealed
<1>1. /\ IsSeq(s) /\ Len(s) = Len(a) /\ DOMAIN s = 1..Len(a)
      /\ \A p \in 1..Len(a) : s[p] = IF a[p].kind = "local" THEN [a[p] EXCEPT !.size = SizeOf(a[p])] ELSE a[p]
  BY SizedFacts
<1>2. Len(heads) = n /\ \A i \in 1..n : heads[i] = c[i].offset + 1
  BY HeadsFacts
<1>3. heads \in Seq(Nat)
  <2>1. \A i \in 1..n : c[i].offset + 1 \in Nat
    BY CellFacts, <1>0
  <2>2. heads \in [1..n -> Nat]
    BY <2>1 DEF Heads
  <2> QED
    BY <2>2, FunctionIsSeq
<1>4. ASSUME NEW i \in 1..n, NEW p, p = c[i].offset + 1
      PROVE  /\ p \in 1..(end - 1) /\ a[p].kind = "local" /\ a[p].flags = {}
             /\ s[p] = [a[p] EXCEPT !.size = SizeOf(a[p])]
             /\ s[p].kind = "local" /\ s[p].flags = {} /\ s[p].size = SizeOf(a[p]) /\ SizeOf(a[p]) \in Nat
             /\ Kind(s, p) = "local" /\ Skipped(s, p) = SizeOf(a[p])
             /\ IsEntry(Makings, a[p], c[i], DataAt(a, p, SizeOf(a[p])))
             /\ p + 1 + SizeOf(a[p]) = HeadOr(heads, end, i + 1)
             /\ p + SizeOf(a[p]) < end
  <2>1. p \in 1..(end - 1) /\ p \in 1..Len(a)
    BY <1>0, <1>4, CellFacts
  <2>2. /\ IsEntry(Makings, a[p], c[i], DataAt(a, p, SizeOf(a[p]))) /\ SizeOf(a[p]) \in Nat
        /\ p + 1 + SizeOf(a[p]) = HeadOr(heads, end, i + 1) /\ p + SizeOf(a[p]) < end
    BY <1>4 DEF Layout
  <2>3. a[p].kind = "local" /\ a[p].flags = {}
    BY <2>2, EntryTells DEF Tells
  <2>4. s[p] = [a[p] EXCEPT !.size = SizeOf(a[p])]
    BY <1>1, <2>1, <2>3
  <2>5. PICK m : a[p] = MadeHeader(m, c[i].offset)
    BY <2>2 DEF IsEntry
  <2>6. DOMAIN a[p] = {"kind", "flags", "compression", "crc32", "size", "fname", "extra"}
    BY <2>5 DEF MadeHeader, HeaderOf, LocalHeader
  <2>7. s[p].kind = "local" /\ s[p].flags = {} /\ s[p].size = SizeOf(a[p])
    BY <2>3, <2>4, <2>6
  <2>8. Kind(s, p) = "local"
    BY <1>1, <2>1, <2>7 DEF Kind
  <2>9. Skipped(s, p) = SizeOf(a[p])
    BY <2>2, <2>7 DEF Skipped, Placeholder
  <2> QED
    BY <2>1, <2>2, <2>3, <2>4, <2>7, <2>8, <2>9
<1>5. SizesKnown(s)
  <2> SUFFICES ASSUME NEW p \in Nat, Kind(s, p) = "local" PROVE Skipped(s, p) \in Nat
    BY DEF SizesKnown
  <2>1. p \in 1..Len(a) /\ s[p].kind = "local"
    BY <1>1 DEF Kind
  <2>2. a[p].kind = "local"
    BY <1>1, <2>1
  <2>3. PICK i \in 1..n : p = c[i].offset + 1
    BY <2>1, <2>2, CellFacts
  <2>4. Skipped(s, p) = SizeOf(a[p]) /\ SizeOf(a[p]) \in Nat
    BY <1>4, <2>3, Zenon
  <2> QED
    BY <2>4
<1>6. ASSUME NEW p \in end..Len(a) PROVE s[p] = a[p] /\ Kind(s, p) = a[p].kind
  <2>1. p \in 1..Len(a)
    BY <1>0
  <2>2. a[p].kind # "local"
    <3>1. ASSUME NEW i \in 1..n, p = c[i].offset + 1 PROVE FALSE
      <4>1. p \in 1..(end - 1)
        BY <1>4, <3>1, Zenon
      <4> QED
        BY <1>0, <4>1
    <3> QED
      BY <2>1, <3>1, CellFacts
  <2> QED
    BY <1>1, <2>1, <2>2 DEF Kind
<1>7. ASSUME NEW i \in 1..n PROVE s[end + i - 1] = c[i] /\ Kind(s, end + i - 1) = "central"
  <2>1. end + i - 1 \in end..Len(a)
    BY <1>0
  <2>2. a[end + i - 1] = c[i]
    BY DEF Sealed
  <2>3. c[i].kind = "central"
    BY CellFacts DEF Tells
  <2> QED
    BY <1>6, <2>1, <2>2, <2>3
<1>8. /\ Kind(s, end + n) = "z64end" /\ s[end + n].entries = n
      /\ Kind(s, end + n + 1) = "z64loc"
      /\ Kind(s, end + n + 2) = "end" /\ s[end + n + 2].entries = Anonymous
  <2>1. end + n \in end..Len(a) /\ end + n + 1 \in end..Len(a) /\ end + n + 2 \in end..Len(a)
    BY <1>0
  <2>2. /\ a[end + n] = [kind |-> "z64end", entries |-> n]
        /\ a[end + n + 1] = [kind |-> "z64loc"]
        /\ a[end + n + 2] = [kind |-> "end", entries |-> Anonymous]
    BY DEF Sealed
  <2>3. /\ a[end + n].kind = "z64end" /\ a[end + n].entries = n
        /\ a[end + n + 1].kind = "z64loc"
        /\ a[end + n + 2].kind = "end" /\ a[end + n + 2].entries = Anonymous
    BY <2>2
  <2> QED
    BY <1>6, <2>1, <2>3
<1>9. Tiled(s, heads, end)
  <2>1. end \in 1..(Len(s) + 1)
    BY <1>0, <1>1
  <2>2. Kind(s, end) # "local"
    <3>1. CASE n = 0
      BY <1>0, <1>8, <3>1
    <3>2. CASE n # 0
      <4>1. 1 \in 1..n /\ end + 1 - 1 = end
        BY <1>0, <3>2
      <4>2. Kind(s, end + 1 - 1) = "central"
        BY <1>7, <4>1
      <4> QED
        BY <4>1, <4>2
    <3> QED
      BY <3>1, <3>2
  <2>3. HeadOr(heads, end, 1) = 1
    BY DEF Layout
  <2>4. ASSUME NEW i \in 1..Len(heads)
        PROVE  /\ heads[i] \in 1..Len(s) /\ Kind(s, heads[i]) = "local"
               /\ heads[i] + 1 + Skipped(s, heads[i]) = HeadOr(heads, end, i + 1)
    <3> PICK p : p = heads[i]
      OBVIOUS
    <3>1. i \in 1..n /\ p = c[i].offset + 1
      BY <1>2
    <3>2. p \in 1..(end - 1) /\ Kind(s, p) = "local" /\ Skipped(s, p) = SizeOf(a[p])
          /\ p + 1 + SizeOf(a[p]) = HeadOr(heads, end, i + 1)
      BY <1>4, <3>1
    <3>3. p \in 1..Len(s)
      BY <1>0, <1>1, <3>2
    <3> QED
      BY <3>2, <3>3
  <2> QED
    BY <2>1, <2>2, <2>3, <2>4 DEF Tiled
<1>10. SealedAt(s, heads, end)
  <2>1. ASSUME NEW i \in 1..n PROVE Kind(s, end + i - 1) = "central" /\ s[heads[i]].flags = {}
    BY <1>2, <1>4, <1>7
  <2>2. Len(s) = end + n + 2
    BY <1>0, <1>1
  <2> QED
    BY <1>2, <1>8, <1>9, <2>1, <2>2 DEF SealedAt
<1>11. Len(s) \in Nat
  BY <1>0, <1>1
<1>12. Opens(s) /\ Read(s) = Stored(s, heads, end)
  BY <1>3, <1>5, <1>10, <1>11, SealedOpens
<1> PICK r : r = Read(s)
  OBVIOUS
<1>13. r = [i \in 1..n |-> [local |-> s[heads[i]], central |-> s[end + i - 1],
                           data |-> SubSeq(s, heads[i] + 1, heads[i] + s[heads[i]].size)]]
  BY <1>2, <1>12 DEF Stored
<1>14. ASSUME NEW i \in 1..n PROVE r[i].central = c[i] /\ IsRead(Makings, r[i])
  <2> PICK p : p = heads[i]
    OBVIOUS
  <2>1. p = c[i].offset + 1
    BY <1>2
  <2> PICK m : m = SizeOf(a[p])
    OBVIOUS
  <2>2. /\ p \in 1..(end - 1) /\ m \in Nat /\ p + m < end
        /\ s[p] = [a[p] EXCEPT !.size = m] /\ s[p].size = m
        /\ IsEntry(Makings, a[p], c[i], DataAt(a, p, m))
    BY <1>4, <2>1
  <2>3. r[i].local = s[p] /\ r[i].central = s[end + i - 1] /\ r[i].data = SubSeq(s, p + 1, p + m)
    <3>1. r[i] = [local |-> s[heads[i]], central |-> s[end + i - 1],
                  data |-> SubSeq(s, heads[i] + 1, heads[i] + s[heads[i]].size)]
      BY <1>13
    <3>2. r[i] = [local |-> s[p], central |-> s[end + i - 1], data |-> SubSeq(s, p + 1, p + m)]
      BY <2>2, <3>1, Zenon
    <3> PICK x, y, z : x = s[p] /\ y = s[end + i - 1] /\ z = SubSeq(s, p + 1, p + m)
      OBVIOUS
    <3> PICK e : e = r[i]
      OBVIOUS
    <3>3. e = [local |-> x, central |-> y, data |-> z]
      BY <3>2, Zenon
    <3>4. e.local = x /\ e.central = y /\ e.data = z
      BY ONLY <3>3
    <3> QED
      BY <3>4, Zenon
  <2>4. p \in Nat /\ p + m \in Nat /\ p + m <= Len(a) /\ m \in Nat /\ p + m < end /\ end \in Nat /\ Len(a) \in Nat
    <3>1. p \in Nat /\ m \in Nat /\ p + m < end /\ end \in Nat /\ end <= Len(a) /\ Len(a) \in Nat
      BY <1>0, <2>2
    <3> QED
      BY ONLY <3>1
  <2>5. SubSeq(s, p + 1, p + m) = [k \in 1..m |-> s[p + k]]
    <3>1. p + m <= Len(s) /\ p \in Nat /\ m \in Nat
      BY <1>1, <2>2, <2>4
    <3>2. SubSeq(s, p + 1, p + m) = DataAt(s, p, m)
      BY <1>1, <3>1, SliceIs, Zenon
    <3> QED
      BY <3>2, Zenon DEF DataAt
  <2>6. ASSUME NEW k \in 1..m PROVE s[p + k] = a[p + k]
    <3>1. p + k \in 1..(end - 1) /\ p + k \in 1..Len(a)
      BY ONLY <2>4, k \in 1..m
    <3>2. a[p + k].kind # "local"
      <4>1. Tells(a[p], c[i], DataAt(a, p, m))
        BY <2>2, EntryTells
      <4> PICK d : d = DataAt(a, p, m)
        OBVIOUS
      <4>2. DOMAIN d = 1..m /\ d[k] = a[p + k]
        BY DEF DataAt
      <4>3. d[k].kind = "data"
        <5>1. DOMAIN d = 1..Len(d) /\ \A j \in 1..Len(d) : d[j].kind = "data"
          BY <4>1 DEF Tells
        <5> QED
          BY <4>2, <5>1
      <4> QED
        BY <4>2, <4>3
    <3> QED
      BY <1>1, <3>1, <3>2
  <2>7. r[i].data = DataAt(a, p, m)
    BY <2>3, <2>5, <2>6 DEF DataAt
  <2>8. r[i].central = c[i]
    BY <1>7, <2>3
  <2> QED
    BY <2>2, <2>3, <2>7, <2>8 DEF IsRead
<1>15. DOMAIN r = 1..n
  BY <1>13
<1> QED
  BY <1>12, <1>14, <1>15

(* They refuse an empty archive. *)
LEMMA EmptyIsRefused == ~Opens(Sized(<< >>))
<1> PICK e : e = << >>
  OBVIOUS
<1>1. IsSeq(e) /\ Len(e) = 0 /\ DOMAIN e = {}
  BY DEF IsSeq
<1> PICK s : s = Sized(e)
  OBVIOUS
<1>2. Len(s) = 0 /\ DOMAIN s = {}
  BY <1>1, SizedFacts
<1>3. \A p : Kind(s, p) = "eof"
  BY <1>2 DEF Kind
<1>4. SizesKnown(s)
  BY <1>3 DEF SizesKnown
<1>5. e \in Seq(Nat)
  OBVIOUS
<1>6. Tiled(s, e, 1)
  BY <1>1, <1>2, <1>3 DEF Tiled, HeadOr
<1>9. Len(s) \in Nat
  BY <1>2
<1>7. Locals(s) = e /\ DirectoryAt(s) = 1
  BY <1>4, <1>5, <1>6, <1>9, ScanFinds, Zenon
<1>8. Kind(s, EndAt(s)) = "eof"
  BY <1>3
<1> QED
  BY <1>8 DEF Opens

-----------------------------------------------------------------------------
(* The scan. *)

(* q is fis in the order o. *)
Shuffled(q, fis, o, n) ==
  /\ o \in [1..n -> 1..n]
  /\ \A k \in 1..n : q[k] = fis[o[k]]
  /\ \A j, k \in 1..n : o[j] = o[k] => j = k
  /\ \A x \in 1..n : \E k \in 1..n : o[k] = x

(* The order of the tasks forgets none and has none twice. *)
LEMMA LaunchFacts ==
  ASSUME NEW S, NEW fis \in Seq(S), NEW q \in LaunchOrders(fis)
  PROVE  /\ q \in Seq(S) /\ Len(q) = Len(fis)
         /\ \E o : Shuffled(q, fis, o, Len(fis))
<1> PICK n \in Nat : n = Len(fis)
  BY LenProperties
<1>1. DOMAIN fis = 1..n /\ \A j \in 1..n : fis[j] \in S
  BY LenProperties, ElementOfSeq
<1>2. PICK o \in SetToSeqs(DOMAIN fis) : q = [k \in DOMAIN o |-> fis[o[k]]]
  BY DEF LaunchOrders
<1>3. IsFiniteSet(1..n) /\ Cardinality(1..n) = n
  <2>1. 1 \in Int /\ n \in Int
    OBVIOUS
  <2>2. IsFiniteSet(1..n) /\ Cardinality(1..n) = IF 1 > n THEN 0 ELSE n - 1 + 1
    BY <2>1, FS_Interval
  <2> QED
    BY <2>2
<1>4. /\ o \in [1..n -> 1..n]
      /\ \A j, k \in 1..n : o[j] = o[k] => j = k
      /\ \A x \in 1..n : \E k \in 1..n : o[k] = x
  <2> PICK D : D = 1..n
    OBVIOUS
  <2>1. IsFiniteSet(D) /\ Cardinality(D) = n /\ o \in SetToSeqs(D)
    BY <1>1, <1>3
  <2>2. /\ o \in [1..n -> D]
        /\ \A j, k \in 1..n : o[j] = o[k] => j = k
        /\ \A x \in D : \E k \in 1..n : o[k] = x
    BY ONLY <2>1, EnumerationIsFull
  <2> QED
    BY <2>2
<1>5. q = [k \in 1..n |-> fis[o[k]]]
  BY <1>2, <1>4
<1>6. q \in [1..n -> S]
  BY <1>1, <1>4, <1>5
<1>7. q \in Seq(S) /\ Len(q) = n
  BY <1>6, FunctionIsSeq
<1>8. Shuffled(q, fis, o, n)
  BY <1>4, <1>5 DEF Shuffled
<1> QED
  BY <1>7, <1>8

(* Of arguments apart, names that were found differ in their paths. *)
LEMMA FoundApart ==
  ASSUME tree \in Trees, args \in Arguments, Apart(args),
         NEW x \in NamesFound(tree, args), NEW y \in NamesFound(tree, args), Path(x) = Path(y)
  PROVE  x = y
<1>0. IsFileSystem(tree) /\ args \in Seq(Name)
  BY TreeFacts, ArgumentFacts
<1>1. PICK i \in DOMAIN args : x \in NamesBelow(tree, args[i])
  BY DEF NamesFound
<1>2. PICK p \in FoundBelow(tree, args[i]) : x = NameOf(args[i], p)
  BY <1>1 DEF NamesBelow
<1>3. PICK j \in DOMAIN args : y \in NamesBelow(tree, args[j])
  BY DEF NamesFound
<1>4. PICK r \in FoundBelow(tree, args[j]) : y = NameOf(args[j], r)
  BY <1>3 DEF NamesBelow
<1>5. args[i] \in Name /\ args[j] \in Name /\ i \in 1..Len(args) /\ j \in 1..Len(args)
  BY <1>0, ElementOfSeq, LenProperties
<1>6. Path(x) = p
  BY <1>0, <1>2, <1>5, NameOfFacts
<1>7. Path(y) = r
  BY <1>0, <1>4, <1>5, NameOfFacts
<1>8. p = r
  BY <1>6, <1>7
<1>9. i = j
  BY <1>0, <1>5, <1>8, ApartFinds
<1> QED
  BY <1>2, <1>4, <1>8, <1>9

StatsIn(names) == [i \in DOMAIN names |-> get_unix_stats(tree, names[i])]

(* The tasks are those of all that was chosen. *)
LEMMA ScanFacts ==
  ASSUME tree \in Trees, args \in Arguments, NEW fs \in LaunchOrders(StatsIn(expand_files(tree, args)))
  PROVE  /\ fs \in Seq(Stats)
         /\ Apart(args) => \A j, k \in 1..Len(fs) : Path(fs[j].fname) = Path(fs[k].fname) => j = k
         /\ \A p \in Chosen : \E k \in 1..Len(fs) : Path(fs[k].fname) = p
<1>0. IsFileSystem(tree) /\ args \in Seq(Name)
  BY TreeFacts, ArgumentFacts
<1> PICK names : names = expand_files(tree, args)
  OBVIOUS
<1>1. /\ names \in Seq(Name)
      /\ \A x : Holds(names, x) <=> x \in NamesFound(tree, args)
      /\ Apart(args) => Once(names)
  BY <1>0, ExpandFilesFacts
<1> PICK n \in Nat : n = Len(names)
  BY <1>1, LenProperties
<1>2. DOMAIN names = 1..n
  BY <1>1, LenProperties
<1> PICK fis : fis = StatsIn(names)
  OBVIOUS
<1>3. fis = [i \in 1..n |-> get_unix_stats(tree, names[i])]
  BY <1>2 DEF StatsIn
<1>4. \A i \in 1..n : names[i] \in NamesFound(tree, args)
  BY <1>1 DEF Holds
<1>5. fis \in [1..n -> Stats]
  BY <1>3, <1>4 DEF Stats
<1>6. fis \in Seq(Stats) /\ Len(fis) = n
  BY <1>5, FunctionIsSeq
<1>7. fs \in Seq(Stats) /\ Len(fs) = n
  BY <1>6, LaunchFacts
<1>12. \E o : Shuffled(fs, fis, o, n)
  BY <1>6, LaunchFacts
<1>13. PICK o : Shuffled(fs, fis, o, n)
  BY <1>12
<1>8. /\ o \in [1..n -> 1..n]
      /\ \A k \in 1..n : fs[k] = fis[o[k]]
      /\ \A j, k \in 1..n : o[j] = o[k] => j = k
      /\ \A x \in 1..n : \E k \in 1..n : o[k] = x
  BY <1>13 DEF Shuffled
<1>9. ASSUME NEW k \in 1..n PROVE fs[k].fname = names[o[k]]
  <2>1. o[k] \in 1..n
    BY <1>8
  <2> PICK i \in 1..n : i = o[k]
    BY <2>1
  <2>3. fs[k] = fis[i] /\ fis[i] = get_unix_stats(tree, names[i])
    BY <1>3, <1>8
  <2>2. fs[k] = get_unix_stats(tree, names[o[k]])
    BY <2>3
  <2> QED
    BY <2>2 DEF get_unix_stats
<1>10. ASSUME Apart(args), NEW j \in 1..n, NEW k \in 1..n, Path(fs[j].fname) = Path(fs[k].fname)
       PROVE  j = k
  <2>1. o[j] \in 1..n /\ o[k] \in 1..n
    BY <1>8
  <2>2. Path(names[o[j]]) = Path(names[o[k]])
    BY <1>9, <1>10
  <2>3. names[o[j]] = names[o[k]]
    BY <1>4, <1>10, <2>1, <2>2, FoundApart
  <2>4. o[j] = o[k]
    BY <1>1, <1>10, <2>1, <2>3 DEF Once
  <2> QED
    BY <1>8, <2>4
<1>11. ASSUME NEW p \in Chosen PROVE \E k \in 1..n : Path(fs[k].fname) = p
  <2>1. PICK x \in NamesFound(tree, args) : Path(x) = p
    BY ChosenIsFound
  <2>2. PICK i \in 1..n : names[i] = x
    BY <1>1 DEF Holds
  <2>3. PICK k \in 1..n : o[k] = i
    BY <1>8
  <2> QED
    BY <1>9, <2>1, <2>2, <2>3
<1> QED
  BY <1>7, <1>10, <1>11

-----------------------------------------------------------------------------
(* The invariant of the records. *)

BaseInv ==
  /\ tree \in Trees /\ args \in Arguments
  /\ \A p \in DOMAIN source : p \in DOMAIN tree /\ source[p] \in Node
  /\ stage \in {"scan", "pack", "open", "list", "unpack", "refused", "aborted", "broken", "exit"}
  /\ stage = "scan" => source = tree
  /\ stage \notin {"scan", "refused"} => \A i \in DOMAIN args : Acceptable(args[i])
  /\ prefix \in Destinations \cup {<< >>}

(* Before the directory is written, and after. *)
PackInv ==
  /\ files \in Seq(Stats) /\ IsSeq(archive) /\ IsSeq(chs)
  /\ stage \in {"scan", "refused"} => files = << >> /\ archive = << >> /\ chs = << >>
  /\ stage \in {"pack", "aborted"} => Layout(Makings, archive, chs, Len(archive) + 1)
  /\ stage \in {"open", "list", "unpack", "broken", "exit"} =>
       /\ files = << >>
       /\ IF chs = << >> THEN archive = << >>
          ELSE \E end : Layout(Makings, archive, chs, end) /\ Sealed(archive, chs, end)

ReadInv ==
  /\ stage \in {"list", "unpack", "exit"} =>
       /\ DOMAIN entries = 1..Len(chs)
       /\ \A i \in 1..Len(chs) : entries[i].central = chs[i] /\ IsRead(Makings, entries[i])
  /\ IF stage \in {"unpack", "exit"} THEN waiting \in Seq(1..Len(chs)) /\ Distinct(waiting)
     ELSE waiting = << >> /\ target = << >>
  /\ stage = "exit" => waiting = << >>

RecordInv == BaseInv /\ PackInv /\ ReadInv

(* No step changes the tree and the arguments; only an edit, the source. *)
LEMMA GivensStay ==
  ASSUME [Next]_vars
  PROVE  tree' = tree /\ args' = args
<1>1. CASE UNCHANGED vars
  BY <1>1 DEF vars, givens
<1>2. CASE \E p \in Editable : Edit(p)
  BY <1>2 DEF Edit, givens
<1>3. CASE Scan \/ ScanFails \/ Seal
  BY <1>3 DEF Scan, ScanFails, Seal, givens
<1>4. CASE (\E i \in DOMAIN files : Pack(i)) \/ (\E i \in DOMAIN files : Abort(i))
  BY <1>4 DEF Pack, Abort, givens
<1>5. CASE OpenFails \/ OpenFile \/ (\E f \in Folders : ListFolder(f)) \/ Finish \/ Exited
  BY <1>5 DEF OpenFails, OpenFile, ListFolder, Finish, Exited, vars, givens
<1>6. CASE Parunzip \/ (\E folder \in Destinations : UnpackTo(folder))
  BY <1>6 DEF Parunzip, UnpackTo, unzip, givens
<1>7. CASE \E i \in DOMAIN waiting : Unpack(i)
  BY <1>7 DEF Unpack, givens
<1> QED
  BY <1>1, <1>2, <1>3, <1>4, <1>5, <1>6, <1>7 DEF Next

(* Only an edit changes the source. *)
LEMMA SourceStays ==
  ASSUME [Next]_vars, ~\E p \in Editable : Edit(p)
  PROVE  source' = source
<1>1. CASE UNCHANGED vars
  BY <1>1 DEF vars, givens
<1>3. CASE Scan \/ ScanFails \/ Seal
  BY <1>3 DEF Scan, ScanFails, Seal, givens
<1>4. CASE (\E i \in DOMAIN files : Pack(i)) \/ (\E i \in DOMAIN files : Abort(i))
  BY <1>4 DEF Pack, Abort, givens
<1>5. CASE OpenFails \/ OpenFile \/ (\E f \in Folders : ListFolder(f)) \/ Finish \/ Exited
  BY <1>5 DEF OpenFails, OpenFile, ListFolder, Finish, Exited, vars, givens
<1>6. CASE Parunzip \/ (\E folder \in Destinations : UnpackTo(folder))
  BY <1>6 DEF Parunzip, UnpackTo, unzip, givens
<1>7. CASE \E i \in DOMAIN waiting : Unpack(i)
  BY <1>7 DEF Unpack, givens
<1> QED
  BY <1>1, <1>3, <1>4, <1>5, <1>6, <1>7 DEF Next

(* A file that has been packed had that body: an edit comes after it. *)
LEMMA BodiesGrow ==
  ASSUME [Next]_vars, NEW p, p \in DOMAIN tree
  PROVE  Bodies(p) \subseteq Bodies(p)'
<1>0. tree' = tree
  BY GivensStay
<1>1. CASE \E q \in Editable : Edit(q)
  <2>1. source = tree
    BY <1>1 DEF Edit
  <2>2. Bodies(p) = {tree[p].body}
    BY <2>1 DEF Bodies
  <2> QED
    BY <1>0, <2>2 DEF Bodies
<1>2. CASE ~\E q \in Editable : Edit(q)
  BY <1>0, <1>2, SourceStays DEF Bodies
<1> QED
  BY <1>1, <1>2

(* What could be packed grows with an edit, what was chosen does not change. *)
LEMMA MakingsGrow ==
  ASSUME BaseInv, [Next]_vars
  PROVE  Stats' = Stats /\ Chosen' = Chosen /\ Makings \subseteq Makings'
<1>1. tree' = tree /\ args' = args
  BY GivensStay
<1>2. Stats' = Stats /\ Chosen' = Chosen
  BY <1>1 DEF Stats, Chosen
<1>3. ASSUME NEW m \in Makings PROVE m \in Makings'
  <2>1. m[1] \in Stats /\ m \in Stats \X Method \X Seq(Nat)
    BY DEF Makings
  <2> PICK p : p = Path(m[1].fname)
    OBVIOUS
  <2>2. p \in DOMAIN tree
    BY <2>1, StatFacts DEF BaseInv
  <2>3. Bodies(p) \subseteq Bodies(p)'
    BY <2>2, BodiesGrow
  <2>4. m[1].kind # "fifo" /\ IF m[1].kind \in {"file", "link"} THEN m[3] \in Bodies(p) ELSE m[3] = << >>
    BY DEF Makings
  <2>5. m[1].kind # "fifo" /\ IF m[1].kind \in {"file", "link"} THEN m[3] \in Bodies(p)' ELSE m[3] = << >>
    BY <2>3, <2>4
  <2> QED
    BY <1>2, <2>1, <2>5 DEF Makings
<1> QED
  BY <1>2, <1>3

(* So records stay what they are. *)
LEMMA RecordsStay ==
  ASSUME BaseInv, [Next]_vars
  PROVE  /\ \A a, c, end : Layout(Makings, a, c, end) => Layout(Makings', a, c, end)
         /\ \A e : IsRead(Makings, e) => IsRead(Makings', e)
<1>1. Makings \subseteq Makings'
  BY MakingsGrow
<1>2. \A e : IsRead(Makings, e) => IsRead(Makings', e)
  BY <1>1 DEF IsRead, IsEntry
<1> QED
  BY <1>1, <1>2, LayoutGrows

(* The first state. *)
LEMMA BaseInit == Init => BaseInv
<1> SUFFICES ASSUME Init PROVE BaseInv
  OBVIOUS
<1>1. tree \in Trees
  BY DEF Init
<1> QED
  BY <1>1, TreeFacts DEF Init, BaseInv

(* A node with another body is a node. *)
LEMMA RecordWithBody ==
  ASSUME NEW K, NEW S, NEW M,
         NEW x \in [kind : K, body : S, mode : M, uid : Nat, gid : Nat, atime : Nat, mtime : Nat],
         NEW b \in S
  PROVE  [x EXCEPT !.body = b] \in
           [kind : K, body : S, mode : M, uid : Nat, gid : Nat, atime : Nat, mtime : Nat]
OBVIOUS

(* A node with another content. *)
LEMMA NodeWithBody ==
  ASSUME NEW n \in Node, NEW b \in Seq(Nat)
  PROVE  [n EXCEPT !.body = b] \in Node
<1> DEFINE K == {"file", "dir", "link", "chr", "fifo"}
           M == 0..4095
           S == Seq(Nat)
<1>1. Node = [kind : K, body : S, mode : M, uid : Nat, gid : Nat, atime : Nat, mtime : Nat]
  BY DEF Node
<1>2. b \in S
  OBVIOUS
<1> HIDE DEF K, M, S
<1>3. [n EXCEPT !.body = b] \in
        [kind : K, body : S, mode : M, uid : Nat, gid : Nat, atime : Nat, mtime : Nat]
  BY <1>1, <1>2, RecordWithBody
<1> QED
  BY <1>1, <1>3

(* What an edit leaves of the source are nodes. *)
LEMMA EditType ==
  ASSUME BaseInv, NEW p, Edit(p)
  PROVE  \A q \in DOMAIN source' : q \in DOMAIN tree /\ source'[q] \in Node
<1>1. p \in DOMAIN source /\ source[p] \in Node
  BY DEF Edit, BaseInv
<1> PICK n : n = source[p]
  OBVIOUS
<1>2. [n EXCEPT !.body = << >>] \in Node
  BY <1>1, EmptyName, NodeWithBody DEF Name
<1>3. [n EXCEPT !.body = Append(@, Edited)] \in Node
  <2>1. n.body \in Seq(Nat) /\ Edited \in Nat
    BY <1>1 DEF Node, Edited
  <2>2. Append(n.body, Edited) \in Seq(Nat)
    BY <2>1, AppendProperties
  <2> PICK b : b = Append(n.body, Edited)
    OBVIOUS
  <2>3. [n EXCEPT !.body = b] \in Node
    BY <1>1, <2>2, NodeWithBody
  <2> QED
    BY <2>3
<1>4. CASE source' = Restrict(source, DOMAIN source \ {p})
  BY <1>4 DEF Restrict, BaseInv
<1>5. CASE source' = [source EXCEPT ![p].body = << >>]
  <2>1. source' = [source EXCEPT ![p] = [n EXCEPT !.body = << >>]]
    BY <1>5
  <2> QED
    BY <1>2, <2>1 DEF BaseInv
<1>6. CASE source' = [source EXCEPT ![p].body = Append(@, Edited)]
  <2>1. source' = [source EXCEPT ![p] = [n EXCEPT !.body = Append(@, Edited)]]
    BY <1>6
  <2> QED
    BY <1>3, <2>1 DEF BaseInv
<1> QED
  BY <1>4, <1>5, <1>6 DEF Edit

(* Every step keeps the types of the file systems and the stages. *)
LEMMA BaseNext ==
  ASSUME BaseInv, [Next]_vars
  PROVE  BaseInv'
<1>1. tree' = tree /\ args' = args
  BY GivensStay
<1>2. \A p \in DOMAIN source' : p \in DOMAIN tree' /\ source'[p] \in Node
  <2>1. CASE \E p \in Editable : Edit(p)
    BY <1>1, <2>1, EditType
  <2>2. CASE ~\E p \in Editable : Edit(p)
    BY <1>1, <2>2, SourceStays DEF BaseInv
  <2> QED
    BY <2>1, <2>2
<1>3. CASE UNCHANGED vars
  BY <1>1, <1>2, <1>3 DEF vars, givens, unpackVars, BaseInv
<1>4. CASE \E p \in Editable : Edit(p)
  BY <1>1, <1>2, <1>4 DEF Edit, unpackVars, BaseInv
<1>5. CASE Scan
  BY <1>1, <1>2, <1>5 DEF Scan, unpackVars, BaseInv
<1>6. CASE ScanFails \/ Seal
  BY <1>1, <1>2, <1>6 DEF ScanFails, Seal, unpackVars, BaseInv
<1>7. CASE (\E i \in DOMAIN files : Pack(i)) \/ (\E i \in DOMAIN files : Abort(i))
  BY <1>1, <1>2, <1>7 DEF Pack, Abort, unpackVars, BaseInv
<1>8. CASE OpenFails \/ OpenFile \/ Finish
  BY <1>1, <1>2, <1>8 DEF OpenFails, OpenFile, Finish, unpackVars, BaseInv
<1>9. CASE stage = "list" /\ \E f \in Folders : ListFolder(f)
  BY <1>1, <1>2, <1>9 DEF ListFolder, unpackVars, BaseInv
<1>10. CASE Exited
  BY <1>1, <1>2, <1>10 DEF Exited, vars, unpackVars, BaseInv
<1>11. CASE Parunzip
  BY <1>1, <1>2, <1>11 DEF Parunzip, unzip, BaseInv
<1>12. CASE \E folder \in Destinations : UnpackTo(folder)
  BY <1>1, <1>2, <1>12 DEF UnpackTo, Listed, unzip, BaseInv
<1>13. CASE \E i \in DOMAIN waiting : Unpack(i)
  BY <1>1, <1>2, <1>13 DEF Unpack, BaseInv
<1> QED
  BY <1>3, <1>4, <1>5, <1>6, <1>7, <1>8, <1>9, <1>10, <1>11, <1>12, <1>13 DEF Next

-----------------------------------------------------------------------------
(* The first state has no archive. *)
LEMMA PackInit == Init => PackInv /\ ReadInv
<1> SUFFICES ASSUME Init PROVE PackInv /\ ReadInv
  OBVIOUS
<1>1. IsSeq(<< >>)
  BY DEF IsSeq
<1> QED
  BY <1>1 DEF Init, PackInv, ReadInv

(* What a step of packing that ends well adds. *)
Added(i, method) ==
  LET r  == compress_entry(source, files[i], method)
      lh == LocalHeader(files[i], r, Len(archive))
  IN  /\ archive' = Append(archive, lh) \o r.data
      /\ chs' = Append(chs, CentralHeader(files[i], lh, Len(archive)))

(* A task of parzip either adds its entry or reports its file. *)
LEMMA PackCases ==
  ASSUME NEW i, Pack(i)
  PROVE  \/ CanPack(source, files[i]) /\ (\E method \in Methods(files[i]) : Added(i, method)) /\ failed' = failed
         \/ /\ ~CanPack(source, files[i]) /\ archive' = archive /\ chs' = chs
            /\ failed' = failed \cup {files[i].fname}
BY DEF Pack, Added

(* An entry that is added stands behind the others. *)
LEMMA AddedLayout ==
  ASSUME BaseInv, PackInv, stage = "pack", NEW i \in DOMAIN files, CanPack(source, files[i]),
         NEW method \in Methods(files[i]), Added(i, method)
  PROVE  /\ IsSeq(archive') /\ IsSeq(chs') /\ Layout(Makings, archive', chs', Len(archive') + 1)
         /\ Len(chs') = Len(chs) + 1 /\ (\A j \in 1..Len(chs) : chs'[j] = chs[j])
         /\ Path(chs'[Len(chs) + 1].fname) = Path(files[i].fname)
<1> PICK fi : fi = files[i]
  OBVIOUS
<1>1. fi \in Stats
  BY ElementOfSeq, LenProperties DEF PackInv
<1> PICK p : p = Path(fi.fname)
  OBVIOUS
<1>2. tree \in Trees /\ args \in Arguments
  BY DEF BaseInv
<1>3. p \in Chosen /\ p \in DOMAIN tree /\ fi.fname \in Name
  BY <1>1, <1>2, StatFacts
<1> PICK body : body = IF fi.kind \in {"file", "link"} THEN source[p].body ELSE << >>
  OBVIOUS
<1>4. fi.kind # "fifo" /\ (fi.kind \in {"file", "link"} => p \in DOMAIN source)
  BY DEF CanPack
<1>5. method \in Method
  BY DEF Methods, Method
<1>6. body \in Seq(Nat)
  <2>1. CASE fi.kind \in {"file", "link"}
    BY <1>4, <2>1 DEF BaseInv, Node
  <2>2. CASE fi.kind \notin {"file", "link"}
    BY <2>2
  <2> QED
    BY <2>1, <2>2
<1>7. IF fi.kind \in {"file", "link"} THEN body \in Bodies(p) ELSE body = << >>
  BY <1>4 DEF Bodies
<1> PICK m : m = <<fi, method, body>>
  OBVIOUS
<1>8. m \in Stats \X Method \X Seq(Nat) /\ m[1] = fi /\ m[2] = method /\ m[3] = body
  BY <1>1, <1>5, <1>6
<1>9. m \in Makings
  BY <1>4, <1>7, <1>8 DEF Makings
<1> PICK r : r = compress_entry(source, fi, method)
  OBVIOUS
<1>10. r = ResultOf(fi, method, body)
  BY CompressIs
<1> PICK data : data = Encode(method, body)
  OBVIOUS
<1>11. r.data = data
  BY <1>10 DEF ResultOf
<1> PICK o \in Nat : o = Len(archive)
  BY IsSeqFacts DEF PackInv
<1> PICK lh : lh = LocalHeader(fi, r, o)
  OBVIOUS
<1> PICK ch : ch = CentralHeader(fi, lh, o)
  OBVIOUS
<1>12. lh = MadeHeader(m, o)
  BY <1>8, <1>10 DEF MadeHeader, HeaderOf
<1>13. ch.offset = o
  BY DEF CentralHeader
<1>14. IsEntry(Makings, lh, ch, data)
  BY <1>8, <1>9, <1>12, <1>13 DEF IsEntry
<1>15. Tells(lh, ch, data)
  BY <1>2, <1>14, EntryTells
<1>16. IsSeq(data)
  <2> PICK S : S = {data[k] : k \in 1..Len(data)}
    OBVIOUS
  <2>1. method = "store" \/ method = "lzma"
    BY <1>5 DEF Method
  <2>2. CASE method = "store"
    <3> PICK T : T = {[kind |-> "data", byte |-> body[k]] : k \in DOMAIN body}
      OBVIOUS
    <3> PICK n \in Nat : n = Len(body)
      BY <1>6, LenProperties
    <3>1. DOMAIN body = 1..n
      BY <1>6, LenProperties
    <3>2. data \in [1..n -> T]
      BY <2>2, <3>1 DEF Encode
    <3> QED
      BY <3>2, FunctionIsSeq DEF IsSeq
  <2>3. CASE method = "lzma"
    <3> PICK cell : cell = [kind |-> "data", method |-> method, body |-> body]
      OBVIOUS
    <3>1. data = <<cell>>
      BY <2>3 DEF Encode
    <3>2. <<cell>> \in Seq({cell})
      OBVIOUS
    <3> QED
      BY <3>1, <3>2 DEF IsSeq
  <2> QED
    BY <2>1, <2>2, <2>3
<1>17. Follows(Makings, archive, lh, ch, data)
  BY <1>13, <1>14, <1>15, <1>16 DEF Follows, Tells
<1>18. IsSeq(archive) /\ IsSeq(chs) /\ Layout(Makings, archive, chs, Len(archive) + 1)
  BY DEF PackInv
<1>19. archive' = Append(archive, lh) \o data /\ chs' = Append(chs, ch)
  BY <1>11 DEF Added
<1>20. IsSeq(archive') /\ IsSeq(chs') /\ Layout(Makings, archive', chs', Len(archive') + 1)
  <2>1. ASSUME NEW b, b = Append(archive, lh) \o data, NEW d, d = Append(chs, ch)
        PROVE  IsSeq(b) /\ IsSeq(d) /\ Layout(Makings, b, d, Len(b) + 1)
    BY ONLY <1>17, <1>18, <2>1, LayoutAppend
  <2> QED
    BY <1>19, <2>1, Zenon
<1>21. Len(chs') = Len(chs) + 1 /\ (\A j \in 1..Len(chs) : chs'[j] = chs[j]) /\ chs'[Len(chs) + 1] = ch
  BY <1>18, <1>19, IsSeqAppend
<1>22. Path(ch.fname) = p
  <2>1. ch.fname = EntryNameOf(fi)
    <3>1. lh.fname = EntryNameOf(fi)
      BY <1>8, <1>12, HeaderFacts DEF MadeHeader
    <3> QED
      BY <3>1 DEF CentralHeader
  <2> QED
    BY <1>3, <2>1, EntryNamePath
<1> QED
  BY <1>20, <1>21, <1>22

(* What is behind end does not matter. *)
LEMMA LayoutPrefix ==
  ASSUME NEW M, NEW a, NEW b, NEW c, NEW end \in Nat, Layout(M, a, c, end),
         end <= Len(b) + 1, Len(b) \in Nat, \A p \in 1..(end - 1) : b[p] = a[p]
  PROVE  Layout(M, b, c, end)
<1>1. ASSUME NEW i \in 1..Len(c)
      PROVE  LET p == c[i].offset + 1
                 n == SizeOf(b[p])
             IN  /\ p \in 1..(end - 1) /\ n \in Nat /\ p + 1 + n = HeadOr(Heads(c), end, i + 1) /\ p + n < end
                 /\ IsEntry(M, b[p], c[i], DataAt(b, p, n))
  <2> PICK p : p = c[i].offset + 1
    OBVIOUS
  <2> PICK n : n = SizeOf(a[p])
    OBVIOUS
  <2>1. /\ p \in 1..(end - 1) /\ n \in Nat /\ p + 1 + n = HeadOr(Heads(c), end, i + 1) /\ p + n < end
        /\ IsEntry(M, a[p], c[i], DataAt(a, p, n))
    BY DEF Layout
  <2>2. b[p] = a[p] /\ SizeOf(b[p]) = n
    BY <2>1
  <2>3. DataAt(b, p, n) = DataAt(a, p, n)
    <3>1. \A k \in 1..n : p + k \in 1..(end - 1)
      <4>1. p \in Nat /\ n \in Nat /\ p + n < end
        BY <2>1
      <4> QED
        BY ONLY <4>1, end \in Nat
    <3> QED
      BY <3>1 DEF DataAt
  <2> QED
    BY <2>1, <2>2, <2>3
<1>2. ASSUME NEW p \in 1..(end - 1)
      PROVE  \/ b[p].kind = "data"
             \/ b[p].kind = "local" /\ \E i \in 1..Len(c) : p = c[i].offset + 1
  BY DEF Layout
<1>3. end \in 1..(Len(b) + 1) /\ HeadOr(Heads(c), end, 1) = 1
  BY DEF Layout
<1> QED
  BY <1>1, <1>2, <1>3 DEF Layout

(* Without an entry there is no data. *)
LEMMA NothingPacked ==
  ASSUME NEW M, NEW a, IsSeq(a), Layout(M, a, << >>, Len(a) + 1)
  PROVE  a = << >>
<1> PICK n \in Nat : n = Len(a)
  BY IsSeqFacts
<1>1. Len(Heads(<< >>)) = 0
  BY HeadsFacts
<1>2. n + 1 = 1
  BY <1>1 DEF Layout, HeadOr
<1>3. a = [i \in 1..0 |-> a[i]]
  BY <1>2, IsSeqFacts
<1> QED
  BY <1>3

SealOf(c) ==
  <<[kind |-> "z64end", entries |-> Len(c)], [kind |-> "z64loc"], [kind |-> "end", entries |-> Anonymous]>>

(* The directory behind the entries seals the archive. *)
LEMMA SealFacts ==
  ASSUME NEW M, NEW a, IsSeq(a), NEW c, IsSeq(c), Layout(M, a, c, Len(a) + 1),
         NEW b, b = a \o c \o SealOf(c)
  PROVE  IsSeq(b) /\ Layout(M, b, c, Len(a) + 1) /\ Sealed(b, c, Len(a) + 1)
<1> PICK n \in Nat : n = Len(c)
  BY IsSeqFacts
<1> PICK m \in Nat : m = Len(a)
  BY IsSeqFacts
<1> PICK x : x = a \o c
  OBVIOUS
<1>1. IsSeq(x) /\ Len(x) = m + n /\ (\A i \in 1..m : x[i] = a[i]) /\ (\A i \in 1..n : x[m + i] = c[i])
  BY IsSeqConcat
<1> PICK s1, s2, s3 : s1 = [kind |-> "z64end", entries |-> Len(c)] /\ s2 = [kind |-> "z64loc"]
                      /\ s3 = [kind |-> "end", entries |-> Anonymous]
  OBVIOUS
<1> PICK s : s = <<s1, s2, s3>>
  OBVIOUS
<1>2. IsSeq(s) /\ Len(s) = 3 /\ s[1] = s1 /\ s[2] = s2 /\ s[3] = s3
  <2>1. s \in Seq({s1, s2, s3})
    OBVIOUS
  <2> QED
    BY <2>1 DEF IsSeq
<1>3. b = x \o s
  BY DEF SealOf
<1>4. /\ IsSeq(b) /\ Len(b) = Len(x) + Len(s)
      /\ \A i \in 1..Len(x) : b[i] = x[i]
      /\ \A i \in 1..Len(s) : b[Len(x) + i] = s[i]
  <2>1. /\ IsSeq(x \o s) /\ Len(x \o s) = Len(x) + Len(s)
        /\ \A i \in 1..Len(x) : (x \o s)[i] = x[i]
        /\ \A i \in 1..Len(s) : (x \o s)[Len(x) + i] = s[i]
    <3>1. IsSeq(x) /\ IsSeq(s)
      BY <1>1, <1>2
    <3> QED
      BY ONLY <3>1, IsSeqConcat
  <2> QED
    BY ONLY <1>3, <2>1, Zenon
<1> PICK end \in Nat : end = m + 1
  OBVIOUS
<1>5. Len(b) = end + n + 2 /\ \A i \in 1..(m + n) : b[i] = x[i]
  BY <1>1, <1>2, <1>4
<1>6. b[end + n] = s1 /\ b[end + n + 1] = s2 /\ b[end + n + 2] = s3
  <2>1. b[Len(x) + 1] = s1 /\ b[Len(x) + 2] = s2 /\ b[Len(x) + 3] = s3
    <3>1. 1 \in 1..Len(s) /\ 2 \in 1..Len(s) /\ 3 \in 1..Len(s)
      BY ONLY <1>2
    <3>2. \A i \in 1..Len(s) : b[Len(x) + i] = s[i]
      BY <1>4
    <3> QED
      BY ONLY <1>2, <3>1, <3>2
  <2>2. Len(x) + 1 = end + n /\ Len(x) + 2 = end + n + 1 /\ Len(x) + 3 = end + n + 2
    BY <1>1
  <2> QED
    BY <2>1, <2>2
<1>7. ASSUME NEW i \in 1..n PROVE b[end + i - 1] = c[i]
  <2>1. end + i - 1 = m + i /\ m + i \in 1..(m + n)
    OBVIOUS
  <2> QED
    BY <1>1, <1>5, <2>1
<1>8. Sealed(b, c, end)
  BY <1>5, <1>6, <1>7 DEF Sealed
<1>9. \A i \in 1..(end - 1) : b[i] = a[i]
  BY <1>1, <1>5
<1>10. end <= Len(b) + 1 /\ Len(b) \in Nat
  BY <1>5
<1>11. Layout(M, b, c, end)
  BY <1>9, <1>10, LayoutPrefix
<1> QED
  BY <1>4, <1>8, <1>11

(* The three phases of PackInv. *)
Phase(s) ==
  IF s \in {"scan", "refused"} THEN 0 ELSE IF s \in {"pack", "aborted"} THEN 1 ELSE 2

(* The steps that leave the archive as it is. *)
LEMMA PackStays ==
  ASSUME RecordInv, [Next]_vars, files' = files, archive' = archive, chs' = chs,
         stage' \in {"scan", "pack", "open", "list", "unpack", "refused", "aborted", "broken", "exit"},
         Phase(stage') = Phase(stage)
  PROVE  PackInv'
<1>1. Stats' = Stats
  BY MakingsGrow DEF RecordInv
<1>2. \A a, c, end : Layout(Makings, a, c, end) => Layout(Makings', a, c, end)
  BY RecordsStay DEF RecordInv
<1>3. PackInv
  BY DEF RecordInv
<1>4. stage \in {"scan", "pack", "open", "list", "unpack", "refused", "aborted", "broken", "exit"}
  BY DEF RecordInv, BaseInv
<1>5. CASE Phase(stage) = 0
  BY <1>1, <1>3, <1>4, <1>5 DEF Phase, PackInv
<1>6. CASE Phase(stage) = 1
  BY <1>1, <1>2, <1>3, <1>4, <1>6 DEF Phase, PackInv
<1>7. CASE Phase(stage) = 2
  <2>1. stage' \in {"open", "list", "unpack", "broken", "exit"} /\ stage \in {"open", "list", "unpack", "broken", "exit"}
    BY <1>4, <1>7 DEF Phase
  <2>2. files = << >> /\ IF chs = << >> THEN archive = << >>
                        ELSE \E end : Layout(Makings, archive, chs, end) /\ Sealed(archive, chs, end)
    BY <1>3, <2>1 DEF PackInv
  <2>3. files' = << >> /\ IF chs' = << >> THEN archive' = << >>
                         ELSE \E end : Layout(Makings', archive', chs', end) /\ Sealed(archive', chs', end)
    BY <1>2, <2>2
  <2>4. stage' \notin {"scan", "refused"} /\ stage' \notin {"pack", "aborted"}
    BY <2>1
  <2> QED
    BY <1>1, <1>3, <2>3, <2>4 DEF PackInv
<1> QED
  BY <1>5, <1>6, <1>7 DEF Phase

(* Every step keeps the archive laid out, or sealed. *)
LEMMA PackNext ==
  ASSUME RecordInv, [Next]_vars
  PROVE  PackInv'
<1>1. Stats' = Stats /\ tree' = tree /\ args' = args
  BY MakingsGrow, GivensStay DEF RecordInv
<1>2. \A a, c, end : Layout(Makings, a, c, end) => Layout(Makings', a, c, end)
  BY RecordsStay DEF RecordInv
<1>3. BaseInv /\ PackInv
  BY DEF RecordInv
<1>4. BaseInv'
  BY <1>3, BaseNext
<1>5. stage' \in {"scan", "pack", "open", "list", "unpack", "refused", "aborted", "broken", "exit"}
  BY <1>4 DEF BaseInv
<1>6. CASE UNCHANGED <<files, archive, chs>> /\ Phase(stage') = Phase(stage)
  BY <1>5, <1>6, PackStays
<1>7. CASE Scan
  <2>1. stage = "scan" /\ source = tree /\ stage' = "pack" /\ archive' = archive /\ chs' = chs
    BY <1>3, <1>7 DEF Scan, BaseInv
  <2>2. files' \in LaunchOrders(StatsIn(expand_files(tree, args)))
    BY <1>7, <2>1 DEF Scan, StatsIn
  <2>3. files' \in Seq(Stats)
    BY <1>3, <2>2, ScanFacts DEF BaseInv
  <2>4. archive = << >> /\ chs = << >> /\ IsSeq(archive) /\ IsSeq(chs)
    BY <1>3, <2>1 DEF PackInv
  <2>5. Layout(Makings', archive', chs', Len(archive') + 1)
    <3>1. Len(archive') + 1 = 1
      BY <2>1, <2>4
    <3>2. Layout(Makings', << >>, << >>, 1)
      BY EmptyLayout
    <3> QED
      BY <2>1, <2>4, <3>1, <3>2
  <2> QED
    BY <1>1, <2>1, <2>3, <2>4, <2>5 DEF PackInv
<1>8. CASE \E i \in DOMAIN files : Pack(i)
  <2> PICK i \in DOMAIN files : Pack(i)
    BY <1>8
  <2>1. stage = "pack" /\ stage' = "pack" /\ files' = RemoveAt(files, i)
    BY DEF Pack
  <2>2. files' \in Seq(Stats)
    <3>1. files \in Seq(Stats) /\ i \in 1..Len(files)
      BY <1>3, LenProperties DEF PackInv
    <3> QED
      BY <2>1, <3>1, RemoveAtFacts
  <2>3. IsSeq(archive') /\ IsSeq(chs') /\ Layout(Makings, archive', chs', Len(archive') + 1)
    <3>1. CASE CanPack(source, files[i]) /\ \E method \in Methods(files[i]) : Added(i, method)
      BY <1>3, <2>1, <3>1, AddedLayout
    <3>2. CASE archive' = archive /\ chs' = chs
      BY <1>3, <2>1, <3>2 DEF PackInv
    <3> QED
      BY <3>1, <3>2, PackCases
  <2>4. Layout(Makings', archive', chs', Len(archive') + 1)
    BY <1>2, <2>3
  <2> QED
    BY <1>1, <2>1, <2>2, <2>3, <2>4 DEF PackInv
<1>9. CASE Seal
  <2>1. /\ stage = "pack" /\ files = << >> /\ files' = files /\ chs' = chs /\ stage' = "open"
        /\ archive' = IF chs = << >> THEN archive ELSE archive \o chs \o SealOf(chs)
    BY <1>9 DEF Seal, SealOf
  <2>2. Layout(Makings, archive, chs, Len(archive) + 1) /\ IsSeq(archive) /\ IsSeq(chs)
    BY <1>3, <2>1 DEF PackInv
  <2>3. CASE chs = << >>
    <3>1. archive = << >> /\ archive' = archive
      BY <2>1, <2>2, <2>3, NothingPacked
    <3> QED
      BY <1>1, <1>3, <2>1, <2>2, <2>3, <3>1 DEF PackInv
  <2>4. CASE chs # << >>
    <3>1. archive' = archive \o chs \o SealOf(chs)
      BY <2>1, <2>4
    <3> PICK b : b = archive'
      OBVIOUS
    <3> PICK end : end = Len(archive) + 1
      OBVIOUS
    <3>2. IsSeq(b) /\ Layout(Makings, b, chs, end) /\ Sealed(b, chs, end)
      BY <2>2, <3>1, SealFacts
    <3>3. Layout(Makings', archive', chs', end) /\ Sealed(archive', chs', end) /\ IsSeq(archive') /\ IsSeq(chs')
      BY <1>2, <2>1, <2>2, <3>2
    <3>4. files' \in Seq(Stats')
      BY <1>1, <1>3, <2>1 DEF PackInv
    <3> QED
      BY <2>1, <2>4, <3>3, <3>4 DEF PackInv
  <2> QED
    BY <2>3, <2>4
<1>10. CASE UNCHANGED vars \/ Exited
  BY <1>6, <1>10 DEF vars, packVars, Exited
<1>11. CASE ScanFails \/ (\E p \in Editable : Edit(p)) \/ (\E i \in DOMAIN files : Abort(i))
  BY <1>6, <1>11 DEF ScanFails, Edit, Abort, packVars, Phase
<1>12. CASE OpenFails \/ OpenFile \/ Finish \/ (stage = "list" /\ \E f \in Folders : ListFolder(f))
  BY <1>6, <1>12 DEF OpenFails, OpenFile, Finish, ListFolder, packVars, Phase
<1>13. CASE Parunzip \/ (\E folder \in Destinations : UnpackTo(folder))
  BY <1>6, <1>13 DEF Parunzip, UnpackTo, Listed, unzip, packVars, Phase
<1>14. CASE \E i \in DOMAIN waiting : Unpack(i)
  BY <1>6, <1>14 DEF Unpack, packVars
<1> QED
  BY <1>7, <1>8, <1>9, <1>10, <1>11, <1>12, <1>13, <1>14 DEF Next

-----------------------------------------------------------------------------
(* What the readers know, when they have opened the archive. *)
LEMMA ReadFacts ==
  ASSUME BaseInv, PackInv, stage = "open", CanOpen
  PROVE  /\ DOMAIN Read(Sized(archive)) = 1..Len(chs)
         /\ \A i \in 1..Len(chs) : /\ Read(Sized(archive))[i].central = chs[i]
                                   /\ IsRead(Makings, Read(Sized(archive))[i])
<1>1. chs # << >>
  <2>1. CASE chs = << >>
    <3>1. archive = << >>
      BY <2>1 DEF PackInv
    <3> QED
      BY <3>1, EmptyIsRefused DEF CanOpen
  <2> QED
    BY <2>1
<1>2. PICK end : Layout(Makings, archive, chs, end) /\ Sealed(archive, chs, end)
  BY <1>1 DEF PackInv
<1>3. IsSeq(archive) /\ IsSeq(chs) /\ tree \in Trees /\ args \in Arguments
  BY DEF PackInv, BaseInv
<1> QED
  BY <1>2, <1>3, SealedIsRead

(* All tasks wait. *)
LEMMA AllWait ==
  ASSUME NEW n \in Nat, NEW w, w = [i \in 1..n |-> i]
  PROVE  w \in Seq(1..n) /\ Distinct(w) /\ Len(w) = n
<1>1. w \in [1..n -> 1..n]
  OBVIOUS
<1> QED
  BY <1>1, FunctionIsSeq DEF Distinct

(* Every step keeps what the reader knows of the entries. *)
LEMMA ReadNext ==
  ASSUME RecordInv, [Next]_vars
  PROVE  ReadInv'
<1>1. \A e : IsRead(Makings, e) => IsRead(Makings', e)
  BY RecordsStay DEF RecordInv
<1>2. BaseInv /\ PackInv /\ ReadInv
  BY DEF RecordInv
<1>3. stage \in {"scan", "pack", "open", "list", "unpack", "refused", "aborted", "broken", "exit"}
  BY <1>2 DEF BaseInv
<1>4. CASE UNCHANGED vars \/ Exited
  BY <1>1, <1>2, <1>4 DEF vars, packVars, readVars, unpackVars, Exited, ReadInv
<1>5. CASE Scan \/ ScanFails \/ Seal \/ OpenFails
  BY <1>2, <1>5 DEF Scan, ScanFails, Seal, OpenFails, unpackVars, ReadInv
<1>6. CASE \E p \in Editable : Edit(p)
  BY <1>2, <1>6 DEF Edit, unpackVars, ReadInv
<1>7. CASE (\E i \in DOMAIN files : Pack(i)) \/ (\E i \in DOMAIN files : Abort(i))
  BY <1>2, <1>7 DEF Pack, Abort, unpackVars, ReadInv
<1>8. CASE OpenFile
  <2>1. stage = "open" /\ CanOpen /\ stage' = "list" /\ entries' = Read(Sized(archive)) /\ chs' = chs
        /\ waiting' = waiting /\ target' = target
    BY <1>8 DEF OpenFile, packVars, unpackVars
  <2>2. /\ DOMAIN entries' = 1..Len(chs)
        /\ \A i \in 1..Len(chs) : entries'[i].central = chs[i] /\ IsRead(Makings', entries'[i])
    BY <1>1, <1>2, <2>1, ReadFacts
  <2> QED
    BY <1>2, <2>1, <2>2 DEF ReadInv
<1>9. CASE stage = "list" /\ \E f \in Folders : ListFolder(f)
  BY <1>1, <1>2, <1>9 DEF ListFolder, packVars, unpackVars, ReadInv
<1>10. CASE Parunzip \/ \E folder \in Destinations : UnpackTo(folder)
  <2>1. stage' = "unpack" /\ chs' = chs /\ waiting' = [i \in DOMAIN entries' |-> i]
    BY <1>10 DEF Parunzip, UnpackTo, unzip, packVars
  <2>2. /\ DOMAIN entries' = 1..Len(chs)
        /\ \A i \in 1..Len(chs) : entries'[i].central = chs[i] /\ IsRead(Makings', entries'[i])
    <3>1. CASE Parunzip
      <4>1. stage = "open" /\ CanOpen /\ entries' = Read(Sized(archive))
        BY <3>1 DEF Parunzip
      <4> QED
        BY <1>1, <1>2, <4>1, ReadFacts
    <3>2. CASE \E folder \in Destinations : UnpackTo(folder)
      <4>1. stage = "list" /\ entries' = entries
        BY <3>2 DEF UnpackTo, Listed
      <4> QED
        BY <1>1, <1>2, <4>1 DEF ReadInv
    <3> QED
      BY <1>10, <3>1, <3>2
  <2>3. waiting' \in Seq(1..Len(chs)) /\ Distinct(waiting')
    <3>1. Len(chs) \in Nat
      BY <1>2, IsSeqFacts DEF PackInv
    <3> PICK w : w = waiting'
      OBVIOUS
    <3>2. w = [i \in 1..Len(chs) |-> i]
      BY <2>1, <2>2
    <3>3. w \in Seq(1..Len(chs)) /\ Distinct(w)
      BY <3>1, <3>2, AllWait
    <3> QED
      BY <3>3
  <2> QED
    BY <2>1, <2>2, <2>3 DEF ReadInv
<1>11. CASE \E i \in DOMAIN waiting : Unpack(i)
  <2> PICK i \in DOMAIN waiting : Unpack(i)
    BY <1>11
  <2>1. stage = "unpack" /\ stage' = stage /\ chs' = chs /\ entries' = entries
        /\ waiting' = RemoveAt(waiting, i)
    BY DEF Unpack, packVars, readVars
  <2>2. waiting \in Seq(1..Len(chs)) /\ Distinct(waiting) /\ i \in 1..Len(waiting)
    BY <1>2, <2>1, LenProperties DEF ReadInv
  <2>3. waiting' \in Seq(1..Len(chs)) /\ Distinct(waiting')
    BY <2>1, <2>2, RemoveDistinct
  <2> QED
    BY <1>1, <1>2, <2>1, <2>3 DEF ReadInv
<1>12. CASE Finish
  BY <1>1, <1>2, <1>12 DEF Finish, packVars, readVars, unpackVars, ReadInv
<1> QED
  BY <1>4, <1>5, <1>6, <1>7, <1>8, <1>9, <1>10, <1>11, <1>12 DEF Next

(* The first state. *)
LEMMA RecordInit == Init => RecordInv
BY BaseInit, PackInit DEF RecordInv

(* Every step keeps all of it. *)
LEMMA RecordNext == RecordInv /\ [Next]_vars => RecordInv'
BY BaseNext, PackNext, ReadNext DEF RecordInv

(* It is an invariant. *)
LEMMA RecordsInvariant == Spec => []RecordInv
BY RecordInit, RecordNext, PTL DEF Spec

-----------------------------------------------------------------------------
(* Names that the readers accept. *)

(* What follows an argument in a name begins with a slash. *)
Slashed(t) == t = << >> \/ t[1] = SLASH

(* A name that was found is the argument, or continues it with a slash. *)
LEMMA NameTail ==
  ASSUME NEW fname \in Name
  PROVE  \A cs \in Seq(Name) : \E t \in Name : NameAt(fname, cs) = fname \o t /\ Slashed(t)
<1> DEFINE T == {cs \in Seq(Name) : \E t \in Name : NameAt(fname, cs) = fname \o t /\ Slashed(t)}
<1>1. << >> \in T
  <2>1. NameAt(fname, << >>) = fname /\ fname \o << >> = fname
    BY NameAtEmpty, ConcatEmptySeq DEF Name
  <2> QED
    BY <2>1, EmptyName DEF Slashed
<1>2. ASSUME NEW cs \in Seq(Name), NEW c \in Name, cs \in T PROVE Append(cs, c) \in T
  <2>1. PICK t \in Name : NameAt(fname, cs) = fname \o t /\ Slashed(t)
    BY <1>2
  <2>2. Append(cs, c) \in Seq(Name)
    BY AppendProperties
  <2>3. NameAt(fname, Append(cs, c)) = NameAt(fname, cs) \o <<SLASH>> \o c
    BY NameAtAppend
  <2> PICK sc : sc = <<SLASH>> \o c
    OBVIOUS
  <2>4. sc \in Name /\ sc # << >> /\ sc[1] = SLASH
    <3>1. sc \in Name
      BY SlashedType
    <3>2. <<SLASH>> \in Seq(Nat) /\ c \in Seq(Nat) /\ Len(<<SLASH>>) = 1 /\ <<SLASH>>[1] = SLASH
      BY DEF Name, SLASH
    <3>3. Len(sc) = 1 + Len(c) /\ sc[1] = SLASH
      BY <3>2, ConcatProperties, LenProperties
    <3>4. sc # << >>
      BY <3>2, <3>3, LenProperties
    <3> QED
      BY <3>1, <3>3, <3>4
  <2>5. NameAt(fname, cs) \in Name /\ (NameAt(fname, cs) \o <<SLASH>>) \o c = NameAt(fname, cs) \o sc
    BY NameAtType, SlashConcat
  <2>6. (fname \o t) \o sc = fname \o (t \o sc)
    BY <2>4, NameConcat
  <2>7. NameAt(fname, Append(cs, c)) = fname \o (t \o sc)
    BY <2>1, <2>3, <2>5, <2>6
  <2>8. t \o sc \in Name /\ Slashed(t \o sc)
    <3>1. t \in Seq(Nat) /\ sc \in Seq(Nat)
      BY <2>4 DEF Name
    <3>2. /\ t \o sc \in Seq(Nat)
          /\ \A k \in 1..(Len(t) + Len(sc)) : (t \o sc)[k] = IF k <= Len(t) THEN t[k] ELSE sc[k - Len(t)]
      BY <3>1, ConcatProperties
    <3>3. CASE t = << >>
      <4>1. t \o sc = sc
        BY <3>1, <3>3, ConcatEmptySeq
      <4> QED
        BY <2>4, <4>1 DEF Slashed
    <3>4. CASE t # << >>
      <4>1. Len(t) \in Nat /\ Len(sc) \in Nat /\ Len(t) # 0
        BY <3>1, <3>4, LenProperties, EmptySeq
      <4>2. 1 \in 1..(Len(t) + Len(sc)) /\ 1 <= Len(t)
        BY <4>1
      <4>3. (t \o sc)[1] = t[1]
        BY <3>2, <4>2
      <4> QED
        BY <2>1, <3>2, <3>4, <4>3 DEF Slashed, Name
    <3> QED
      BY <3>3, <3>4
  <2>9. \E u \in Name : NameAt(fname, Append(cs, c)) = fname \o u /\ Slashed(u)
    BY <2>7, <2>8
  <2> QED
    BY <2>2, <2>9
<1> HIDE DEF T
<1>3. \A cs \in Seq(Name) : cs \in T
  BY <1>1, <1>2, SeqInduction
<1> QED
  BY <1>3 DEF T

(* An argument that names a drive, like "a:", is not absolute to main, but *)
(* with a slash behind it it is to the readers.                            *)
NoDriveNames == \A i \in DOMAIN args : ~is_absolute_path(Append(args[i], SLASH))

(* A name below a relative argument is relative. *)
LEMMA TailIsRelative ==
  ASSUME NEW a \in Name, Acceptable(a), ~is_absolute_path(Append(a, SLASH)), NEW t \in Name, Slashed(t)
  PROVE  CheckFilename(a \o t)
<1> PICK n \in Nat : n = Len(a)
  BY LenProperties DEF Name
<1> PICK m \in Nat : m = Len(t)
  BY LenProperties DEF Name
<1> PICK x : x = a \o t
  OBVIOUS
<1>1. /\ x \in Seq(Nat) /\ Len(x) = n + m
      /\ \A k \in 1..(n + m) : x[k] = IF k <= n THEN a[k] ELSE t[k - n]
  BY ConcatProperties DEF Name
<1>2. n # 0
  BY EmptySeq DEF Acceptable, Name
<1>3. x # << >>
  BY <1>1, <1>2
<1>4. x[1] = a[1]
  BY <1>1, <1>2
<1>5. a[1] \notin {SLASH, BACKSLASH}
  BY DEF Acceptable, is_absolute_path
<1>6. ASSUME Len(x) > 2, x[2] = COLON, x[3] \in {SLASH, BACKSLASH} PROVE FALSE
  <2>1. CASE n = 1
    <3>1. x[2] = t[1] /\ m # 0
      BY <1>1, <1>6, <2>1
    <3>2. t # << >>
      BY <3>1
    <3> QED
      BY <1>6, <3>1, <3>2 DEF Slashed, SLASH, COLON
  <2>2. CASE n = 2
    <3> PICK y : y = Append(a, SLASH)
      OBVIOUS
    <3>1. Len(y) = 3 /\ y[2] = a[2] /\ y[3] = SLASH
      <4>1. a \in Seq(Nat) /\ SLASH \in Nat
        BY DEF Name, SLASH
      <4>2. /\ Len(Append(a, SLASH)) = Len(a) + 1
            /\ \A i \in 1..Len(a) : Append(a, SLASH)[i] = a[i]
            /\ Append(a, SLASH)[Len(a) + 1] = SLASH
        BY <4>1, AppendProperties
      <4>3. Len(a) = 2 /\ Len(a) + 1 = 3 /\ 2 \in 1..Len(a)
        BY <2>2
      <4> QED
        BY <4>2, <4>3
    <3>2. x[2] = a[2]
      BY <1>1, <2>2
    <3> QED
      BY <1>6, <3>1, <3>2 DEF is_absolute_path
  <2>3. CASE n > 2
    <3>1. x[2] = a[2] /\ x[3] = a[3]
      BY <1>1, <2>3
    <3> QED
      BY <1>6, <2>3, <3>1 DEF Acceptable, is_absolute_path
  <2> QED
    BY <1>2, <2>1, <2>2, <2>3
<1>7. ~is_absolute_path(x)
  BY <1>4, <1>5, <1>6 DEF is_absolute_path
<1> QED
  BY <1>3, <1>7 DEF CheckFilename

(* So are the names of all entries. *)
LEMMA EntryNamesAreRelative ==
  ASSUME BaseInv, NoDriveNames, \A i \in DOMAIN args : Acceptable(args[i]), NEW fi \in Stats
  PROVE  CheckFilename(EntryNameOf(fi))
<1>0. tree \in Trees /\ args \in Arguments
  BY DEF BaseInv
<1> PICK x : x = fi.fname
  OBVIOUS
<1>1. x \in NamesFound(tree, args) /\ x \in Name
  BY <1>0, StatFacts
<1>2. PICK i \in DOMAIN args : x \in NamesBelow(tree, args[i])
  BY <1>1 DEF NamesFound
<1>3. PICK p \in FoundBelow(tree, args[i]) : x = NameOf(args[i], p)
  BY <1>2 DEF NamesBelow
<1> PICK a : a = args[i]
  OBVIOUS
<1>4. a \in Name /\ Acceptable(a) /\ ~is_absolute_path(Append(a, SLASH))
  BY <1>0, ArgumentFacts, ElementOfSeq, LenProperties DEF NoDriveNames
<1>5. Below(a, p) \in Seq(FileName)
  BY <1>0, <1>3, <1>4, NameOfFacts, TreeFacts
<1>6. Below(a, p) \in Seq(Name)
  BY <1>5, FileNamesAreNames
<1>7. PICK t \in Name : x = a \o t /\ Slashed(t)
  BY <1>3, <1>4, <1>6, NameTail DEF NameOf
<1>8. CASE EntryNameOf(fi) = x
  BY <1>4, <1>7, <1>8, TailIsRelative
<1>9. CASE EntryNameOf(fi) = Append(x, SLASH)
  <2> PICK s : s = <<SLASH>>
    OBVIOUS
  <2>1. s \in Name /\ Slashed(s)
    BY DEF Name, SLASH, Slashed
  <2>2. Append(x, SLASH) = x \o s
    <3>1. x \in Seq(Nat) /\ SLASH \in Nat
      BY <1>1 DEF Name, SLASH
    <3> QED
      BY <3>1, AppendIsConcat
  <2>3. x \o s = a \o (t \o s)
    BY <1>4, <1>7, <2>1, NameConcat
  <2>4. t \o s \in Name /\ Slashed(t \o s)
    <3>1. t \in Seq(Nat) /\ s \in Seq(Nat)
      BY <2>1 DEF Name
    <3>2. /\ t \o s \in Seq(Nat)
          /\ \A k \in 1..(Len(t) + Len(s)) : (t \o s)[k] = IF k <= Len(t) THEN t[k] ELSE s[k - Len(t)]
      BY <3>1, ConcatProperties
    <3>3. CASE t = << >>
      <4>1. t \o s = s
        BY <3>1, <3>3, ConcatEmptySeq
      <4> QED
        BY <2>1, <4>1
    <3>4. CASE t # << >>
      <4>1. Len(t) \in Nat /\ Len(s) \in Nat /\ Len(t) # 0
        BY <3>1, <3>4, LenProperties, EmptySeq
      <4>2. 1 \in 1..(Len(t) + Len(s)) /\ 1 <= Len(t)
        BY <4>1
      <4>3. (t \o s)[1] = t[1]
        BY <3>2, <4>2
      <4> QED
        BY <1>7, <3>2, <3>4, <4>3 DEF Slashed, Name
    <3> QED
      BY <3>3, <3>4
  <2> QED
    BY <1>4, <1>9, <2>2, <2>3, <2>4, TailIsRelative
<1> QED
  BY <1>8, <1>9 DEF EntryNameOf, EntryName

(* The readers open what was sealed. *)
LEMMA SealedCanOpen ==
  ASSUME RecordInv, stage = "open", chs # << >>, NoDriveNames
  PROVE  CanOpen
<1>1. BaseInv /\ PackInv
  BY DEF RecordInv
<1>2. PICK end : Layout(Makings, archive, chs, end) /\ Sealed(archive, chs, end)
  BY <1>1 DEF PackInv
<1>3. IsSeq(archive) /\ IsSeq(chs) /\ tree \in Trees /\ args \in Arguments
  BY <1>1 DEF PackInv, BaseInv
<1>4. Opens(Sized(archive))
  BY <1>2, <1>3, SealedIsRead
<1>5. ASSUME NEW p \in DOMAIN archive, archive[p].kind = "local" PROVE CheckFilename(archive[p].fname)
  <2>1. p \in 1..Len(archive)
    BY <1>3, IsSeqFacts
  <2>2. PICK i \in 1..Len(chs) : p = chs[i].offset + 1
    BY <1>2, <1>3, <1>5, <2>1, CellFacts
  <2>3. Tells(archive[p], chs[i], DataAt(archive, p, SizeOf(archive[p])))
    BY <1>2, <1>3, <2>2, CellFacts
  <2>4. PICK fi \in Stats : archive[p].fname = EntryNameOf(fi)
    BY <2>3 DEF Tells
  <2>5. \A j \in DOMAIN args : Acceptable(args[j])
    BY <1>1 DEF BaseInv
  <2> QED
    BY <1>1, <2>4, <2>5, EntryNamesAreRelative
<1> QED
  BY <1>4, <1>5 DEF CanOpen

(* The readers open every archive that parzip sealed: of all checks that   *)
(* the constructor of ZipFile makes, none fails, whatever was packed, in   *)
(* whatever order and whatever was edited meanwhile, unless an argument    *)
(* is the name of a drive.                                                 *)
THEOREM ArchivesOpen == Spec => [](NoDriveNames => OpensWhatWasPacked)
<1> DEFINE I == NoDriveNames => OpensWhatWasPacked
<1>1. Init => I
  BY DEF Init, OpensWhatWasPacked
<1>2. ASSUME RecordInv, I, [Next]_vars PROVE I'
  <2>1. args' = args
    BY <1>2, GivensStay
  <2> SUFFICES ASSUME NoDriveNames, stage' = "broken" PROVE chs' = << >>
    BY <2>1 DEF NoDriveNames, OpensWhatWasPacked
  <2>2. CASE UNCHANGED vars \/ Exited
    BY <1>2, <2>2 DEF vars, packVars, Exited, OpensWhatWasPacked
  <2>3. CASE OpenFails
    BY <1>2, <2>3, SealedCanOpen DEF OpenFails, packVars
  <2>4. stage' # "broken" \/ UNCHANGED vars \/ Exited \/ OpenFails
    <3>1. CASE Scan \/ ScanFails \/ Seal \/ OpenFile \/ Finish
      BY <3>1 DEF Scan, ScanFails, Seal, OpenFile, Finish
    <3>2. CASE (\E p \in Editable : Edit(p)) \/ (\E i \in DOMAIN files : Pack(i)) \/ (\E i \in DOMAIN files : Abort(i))
      BY <3>2 DEF Edit, Pack, Abort
    <3>3. CASE (stage = "list" /\ \E f \in Folders : ListFolder(f)) \/ (\E i \in DOMAIN waiting : Unpack(i))
      BY <3>3 DEF ListFolder, Unpack
    <3>4. CASE Parunzip \/ (\E folder \in Destinations : UnpackTo(folder))
      BY <3>4 DEF Parunzip, UnpackTo, unzip
    <3> QED
      BY <1>2, <3>1, <3>2, <3>3, <3>4 DEF Next
  <2> QED
    BY <2>2, <2>3, <2>4
<1>3. I /\ RecordInv /\ [Next]_vars => I'
  BY <1>2
<1> QED
  BY <1>1, <1>3, RecordsInvariant, PTL DEF Spec

-----------------------------------------------------------------------------
(* Making directories. *)

LEMMA AboveFacts ==
  ASSUME NEW X, NEW p \in Seq(X)
  PROVE  \A q : q \in Above(p) <=> q \in Seq(X) /\ Len(q) \in 1..Len(p) /\ Agree(q, p, Len(q))
<1> PICK n \in Nat : n = Len(p)
  BY LenProperties
<1>1. \A k \in 1..n : p[k] \in X
  BY ElementOfSeq
<1>2. ASSUME NEW k \in 1..n
      PROVE  SubSeq(p, 1, k) \in Seq(X) /\ Len(SubSeq(p, 1, k)) = k /\ Agree(SubSeq(p, 1, k), p, k)
  <2> PICK s : s = SubSeq(p, 1, k)
    OBVIOUS
  <2>1. k \in Int /\ 1 \in Int /\ \A i \in 1..k : p[i] \in X
    BY <1>1
  <2>2. /\ s \in Seq(X) /\ Len(s) = IF 1 <= k THEN k - 1 + 1 ELSE 0
        /\ \A i \in 1..(k - 1 + 1) : s[i] = p[1 + i - 1]
    BY <2>1, SubSeqProperties
  <2>3. \A i \in 1..k : s[i] = p[i]
    BY <2>2
  <2> QED
    BY <2>2, <2>3 DEF Agree
<1>3. ASSUME NEW q \in Above(p) PROVE q \in Seq(X) /\ Len(q) \in 1..n /\ Agree(q, p, Len(q))
  <2> PICK k \in 1..n : q = SubSeq(p, 1, k)
    BY DEF Above
  <2>1. SubSeq(p, 1, k) \in Seq(X) /\ Len(SubSeq(p, 1, k)) = k /\ Agree(SubSeq(p, 1, k), p, k)
    BY <1>2
  <2> QED
    BY <2>1
<1>4. ASSUME NEW q \in Seq(X), Len(q) \in 1..n, Agree(q, p, Len(q)) PROVE q \in Above(p)
  <2> PICK k \in 1..n : k = Len(q)
    BY <1>4
  <2> PICK s : s = SubSeq(p, 1, k)
    OBVIOUS
  <2>1. s \in Seq(X) /\ Len(s) = k /\ Agree(s, p, k)
    BY <1>2
  <2>2. q = s
    <3>1. q = [i \in 1..k |-> q[i]] /\ s = [i \in 1..k |-> s[i]]
      BY <1>4, <2>1, LenProperties
    <3>2. \A i \in 1..k : q[i] = s[i]
      BY <1>4, <2>1 DEF Agree
    <3> QED
      BY <3>1, <3>2
  <2> QED
    BY <2>2 DEF Above
<1> QED
  BY <1>3, <1>4

(* A path without its last part. *)
LEMMA FrontFacts ==
  ASSUME NEW X, NEW p \in Seq(X), p # << >>
  PROVE  /\ Front(p) \in Seq(X) /\ Len(Front(p)) = Len(p) - 1 /\ Agree(Front(p), p, Len(p) - 1)
         /\ Len(p) \in Nat \ {0} /\ Front(p) # p
<1> PICK n \in Nat : n = Len(p)
  BY LenProperties
<1>1. n # 0
  BY EmptySeq
<1> PICK s : s = Front(p)
  OBVIOUS
<1>2. 1 \in Int /\ n - 1 \in Int /\ \A i \in 1..(n - 1) : p[i] \in X
  BY ElementOfSeq
<1>3. /\ s \in Seq(X) /\ Len(s) = IF 1 <= n - 1 THEN (n - 1) - 1 + 1 ELSE 0
      /\ \A i \in 1..((n - 1) - 1 + 1) : s[i] = p[1 + i - 1]
  BY <1>2, SubSeqProperties DEF Front
<1>4. \A i \in 1..(n - 1) : s[i] = p[i]
  BY <1>3
<1>5. Len(s) = n - 1
  BY <1>1, <1>3
<1> QED
  BY <1>1, <1>3, <1>4, <1>5 DEF Agree

(* There is nothing above the root. *)
LEMMA FrontOfEmpty == Front(<< >>) = << >> /\ Above(<< >>) = {}
<1>1. Len(<< >>) = 0
  OBVIOUS
<1>2. SubSeq(<< >>, 1, 0 - 1) = << >>
  BY SubSeqEmpty
<1> QED
  BY <1>1, <1>2 DEF Front, Above

(* The directories on the way, and the path itself. *)
LEMMA AboveFront ==
  ASSUME NEW X, NEW p \in Seq(X), p # << >>
  PROVE  Above(p) = Above(Front(p)) \cup {p} /\ p \notin Above(Front(p))
<1> PICK f : f = Front(p)
  OBVIOUS
<1> PICK n \in Nat : n = Len(p)
  BY LenProperties
<1>1. f \in Seq(X) /\ Len(f) = n - 1 /\ n # 0 /\ \A i \in 1..(n - 1) : f[i] = p[i]
  BY FrontFacts DEF Agree
<1>2. ASSUME NEW q \in Above(p), q # p PROVE q \in Above(f)
  <2>1. q \in Seq(X) /\ Len(q) \in 1..n /\ \A i \in 1..Len(q) : q[i] = p[i]
    BY AboveFacts DEF Agree
  <2>2. Len(q) # n
    <3>1. CASE Len(q) = n
      <4>1. q = [i \in 1..n |-> q[i]] /\ p = [i \in 1..n |-> p[i]]
        BY <2>1, <3>1, LenProperties
      <4> QED
        BY <1>2, <2>1, <3>1, <4>1
    <3> QED
      BY <3>1
  <2>3. Len(q) \in 1..(n - 1) /\ \A i \in 1..Len(q) : q[i] = f[i]
    BY <1>1, <2>1, <2>2
  <2> QED
    BY <1>1, <2>1, <2>3, AboveFacts DEF Agree
<1>3. ASSUME NEW q \in Above(f) PROVE q \in Above(p) /\ q # p
  <2>1. q \in Seq(X) /\ Len(q) \in 1..(n - 1) /\ \A i \in 1..Len(q) : q[i] = f[i]
    BY <1>1, AboveFacts DEF Agree
  <2>2. Len(q) \in 1..n /\ \A i \in 1..Len(q) : q[i] = p[i]
    BY <1>1, <2>1
  <2>3. Len(q) # n
    BY <2>1
  <2> QED
    BY <2>1, <2>2, <2>3, AboveFacts DEF Agree
<1>4. p \in Above(p)
  BY <1>1, AboveFacts DEF Agree
<1> QED
  BY <1>2, <1>3, <1>4

(* The directory of what is on the way is on the way, or the root. *)
LEMMA FrontIsAbove ==
  ASSUME NEW X, NEW p \in Seq(X), NEW q \in Above(p)
  PROVE  q # << >> /\ (Front(q) = << >> \/ Front(q) \in Above(p))
<1>1. q \in Seq(X) /\ Len(q) \in 1..Len(p) /\ Agree(q, p, Len(q)) /\ Len(p) \in Nat
  BY AboveFacts, LenProperties
<1>2. q # << >>
  BY <1>1
<1> PICK f : f = Front(q)
  OBVIOUS
<1>3. f \in Seq(X) /\ Len(f) = Len(q) - 1 /\ Agree(f, q, Len(q) - 1) /\ Len(f) \in Nat
  BY <1>1, <1>2, FrontFacts, LenProperties
<1>4. CASE Len(f) = 0
  BY <1>2, <1>3, <1>4, EmptySeq
<1>5. CASE Len(f) # 0
  <2>1. Len(f) \in 1..Len(p) /\ Agree(f, p, Len(f))
    BY <1>1, <1>3, <1>5 DEF Agree
  <2> QED
    BY <1>2, <1>3, <2>1, AboveFacts
<1> QED
  BY <1>4, <1>5

(* A node that was touched. *)
MtimeOnly(n, m) == m = n \/ m = [n EXCEPT !.mtime = Now]

(* Making an entry changes but the time of its directory. *)
LEMMA TouchedFacts ==
  ASSUME NEW fs, NEW made
  PROVE  /\ DOMAIN Touched(fs, made) = DOMAIN fs
         /\ \A q \in DOMAIN fs : MtimeOnly(fs[q], Touched(fs, made)[q])
         /\ \A q \in DOMAIN fs : (\A r \in made : Front(r) # q) => Touched(fs, made)[q] = fs[q]
BY DEF Touched, MtimeOnly

(* mkdirp makes what is missing and leaves the rest. *)
LEMMA MkdirpFacts ==
  ASSUME NEW fs, << >> \notin DOMAIN fs, NEW X, NEW p \in Seq(X)
  PROVE  /\ DOMAIN mkdirp(fs, p) = DOMAIN fs \cup Above(p)
         /\ \A q \in DOMAIN fs : MtimeOnly(fs[q], mkdirp(fs, p)[q])
         /\ CanMkdir(fs, p) => \A q \in DOMAIN fs : fs[q].kind # "dir" => mkdirp(fs, p)[q] = fs[q]
         /\ \A q \in Above(p) \ DOMAIN fs : MtimeOnly(NewDir, mkdirp(fs, p)[q])
<1> PICK made : made = Above(p) \ DOMAIN fs
  OBVIOUS
<1> PICK g : g = [q \in DOMAIN fs \cup made |-> IF q \in made THEN NewDir ELSE fs[q]]
  OBVIOUS
<1>1. mkdirp(fs, p) = Touched(g, made)
  BY DEF mkdirp
<1>2. DOMAIN g = DOMAIN fs \cup Above(p) /\ (\A q \in DOMAIN fs : g[q] = fs[q]) /\ \A q \in made : g[q] = NewDir
  OBVIOUS
<1> PICK t : t = Touched(g, made)
  OBVIOUS
<1>3. /\ DOMAIN t = DOMAIN g
      /\ \A q \in DOMAIN g : MtimeOnly(g[q], t[q])
      /\ \A q \in DOMAIN g : (\A r \in made : Front(r) # q) => t[q] = g[q]
  BY TouchedFacts
<1>4. ASSUME CanMkdir(fs, p), NEW q \in DOMAIN fs, fs[q].kind # "dir" PROVE t[q] = fs[q]
  <2>1. ASSUME NEW r \in made, Front(r) = q PROVE FALSE
    <3>1. q \in Above(p)
      BY <2>1, FrontIsAbove
    <3> QED
      BY <1>4, <3>1 DEF CanMkdir
  <2> QED
    BY <1>2, <1>3, <2>1
<1> QED
  BY <1>1, <1>2, <1>3, <1>4

(* A file system with an entry more. *)
PutTo(fs, p, node, t) ==
  /\ DOMAIN t = DOMAIN fs \cup {p} /\ t[p] = node
  /\ \A q \in DOMAIN fs : MtimeOnly(fs[q], t[q])
  /\ \A q \in DOMAIN fs : q # Front(p) => t[q] = fs[q]

(* An entry is put and the rest left. *)
LEMMA PutFacts ==
  ASSUME NEW fs, NEW p, p \notin DOMAIN fs, NEW node
  PROVE  PutTo(fs, p, node, Put(fs, p, node))
BY TouchedFacts DEF Put, PutTo

-----------------------------------------------------------------------------
(* What becomes of an entry. *)

(* A sequence is its front and its last element. *)
LEMMA FrontAndLast ==
  ASSUME NEW X, NEW s \in Seq(X), s # << >>
  PROVE  s = Append(Front(s), Last(s))
<1> PICK n \in Nat : n = Len(s)
  BY LenProperties
<1> PICK f : f = Front(s)
  OBVIOUS
<1> PICK e : e = Last(s)
  OBVIOUS
<1>1. n # 0 /\ f \in Seq(X) /\ Len(f) = n - 1 /\ \A i \in 1..(n - 1) : f[i] = s[i]
  BY FrontFacts DEF Agree
<1>2. e = s[n] /\ e \in X
  BY <1>1, ElementOfSeq DEF Last
<1> PICK a : a = Append(f, e)
  OBVIOUS
<1>3. /\ a \in Seq(X) /\ Len(a) = n - 1 + 1 /\ (\A i \in 1..(n - 1) : a[i] = f[i]) /\ a[n - 1 + 1] = e
  BY <1>1, <1>2, AppendProperties
<1>4. n - 1 + 1 = n
  OBVIOUS
<1>5. \A i \in 1..n : a[i] = s[i]
  <2> TAKE i \in 1..n
  <2>1. CASE i = n
    BY <1>2, <1>3, <1>4, <2>1
  <2>2. CASE i # n
    <3>1. i \in 1..(n - 1)
      BY <2>2
    <3> QED
      BY <1>1, <1>3, <3>1
  <2> QED
    BY <2>1, <2>2
<1>6. a = [i \in 1..n |-> a[i]] /\ s = [i \in 1..n |-> s[i]]
  BY <1>3, <1>4, LenProperties
<1> QED
  BY <1>5, <1>6

(* The name to unpack to is the destination and the name of the entry. *)
LEMMA OutNamePath ==
  ASSUME NEW where \in Name, NEW fname \in Name
  PROVE  OutName(where, fname) \in Name /\ Path(OutName(where, fname)) = Path(where) \o Path(fname)
<1> PICK n \in Nat : n = Len(where)
  BY LenProperties DEF Name
<1>0. where \in Seq(Nat) /\ fname \in Seq(Nat) /\ SLASH \in Nat /\ <<SLASH>> \in Seq(Nat)
  BY DEF Name, SLASH
<1>1. CASE where = << >>
  <2>1. OutName(where, fname) = fname
    BY <1>0, <1>1, ConcatEmptySeq DEF OutName
  <2>2. Path(where) = << >> /\ Path(fname) \in Seq(Name)
    BY <1>1, PathEmpty, PathType
  <2>3. << >> \o Path(fname) = Path(fname)
    BY <2>2, ConcatEmptySeq
  <2> QED
    BY <2>1, <2>2, <2>3
<1>2. CASE where # << >> /\ Last(where) = SLASH
  <2> PICK s : s = Front(where)
    OBVIOUS
  <2>1. s \in Seq(Nat) /\ where = Append(s, Last(where))
    BY <1>0, <1>2, FrontFacts, FrontAndLast
  <2>2. where = Append(s, SLASH) /\ s \in Name
    BY <1>2, <2>1 DEF Name
  <2>3. Path(where) = Path(s)
    BY <2>2, PathOfSlashed
  <2>4. where = s \o <<SLASH>>
    BY <1>0, <2>1, <2>2, AppendIsConcat
  <2>5. OutName(where, fname) = (s \o <<SLASH>>) \o fname
    BY <1>2, <2>4 DEF OutName
  <2>6. Path(s \o <<SLASH>> \o fname) = Path(s) \o Path(fname)
    BY <2>2, PathConcat
  <2>7. where \o fname \in Seq(Nat)
    BY <1>0, ConcatProperties
  <2> QED
    BY <1>2, <2>3, <2>5, <2>6, <2>7 DEF OutName, Name
<1>3. CASE ~(where = << >> \/ Last(where) = SLASH)
  <2>1. OutName(where, fname) = where \o <<SLASH>> \o fname
    BY <1>3 DEF OutName
  <2>2. Path(where \o <<SLASH>> \o fname) = Path(where) \o Path(fname)
    BY PathConcat
  <2>3. where \o <<SLASH>> \in Seq(Nat)
    BY <1>0, ConcatProperties
  <2>4. (where \o <<SLASH>>) \o fname \in Seq(Nat)
    BY <1>0, <2>3, ConcatProperties
  <2> QED
    BY <2>1, <2>2, <2>4 DEF Name
<1> QED
  BY <1>1, <1>2, <1>3

(* Nodes with other times, owners, modes.  The names keep the provers from *)
(* the elements of the sets.                                               *)
NodeKind == {"file", "dir", "link", "chr", "fifo"}
Mode == 0..4095
Body == Seq(Nat)
Number == Nat
Nodes == [kind : NodeKind, body : Body, mode : Mode, uid : Number, gid : Number, atime : Number, mtime : Number]

(* The set of nodes by names for the sets of their fields, which the provers do not open. *)
LEMMA NodeNodes == Node = Nodes
BY DEF Node, Nodes, NodeKind, Mode, Body, Number

(* The fields of a node. *)
LEMMA NodeFields ==
  ASSUME NEW n \in Node
  PROVE  /\ n.kind \in {"file", "dir", "link", "chr", "fifo"} /\ n.body \in Seq(Nat) /\ n.mode \in 0..4095
         /\ n.uid \in Nat /\ n.gid \in Nat /\ n.atime \in Nat /\ n.mtime \in Nat
<1>1. n \in Nodes
  BY NodeNodes
<1>2. /\ n.kind \in NodeKind /\ n.body \in Body /\ n.mode \in Mode
      /\ n.uid \in Number /\ n.gid \in Number /\ n.atime \in Number /\ n.mtime \in Number
  BY ONLY <1>1 DEF Nodes
<1> QED
  BY <1>2 DEF NodeKind, Body, Mode, Number

(* A node with another time is a node. *)
LEMMA MtimeNode ==
  ASSUME NEW n \in Node, NEW m, MtimeOnly(n, m)
  PROVE  /\ m \in Node /\ m.kind = n.kind /\ m.body = n.body /\ m.mode = n.mode
         /\ m.uid = n.uid /\ m.gid = n.gid /\ m.atime = n.atime
<1>1. CASE m = n
  BY <1>1
<1>2. CASE m = [n EXCEPT !.mtime = Now]
  <2>1. n \in Nodes /\ Now \in Number
    BY NodeNodes DEF Now, Number
  <2>2. /\ m \in Nodes /\ m.kind = n.kind /\ m.body = n.body /\ m.mode = n.mode
        /\ m.uid = n.uid /\ m.gid = n.gid /\ m.atime = n.atime
    BY ONLY <1>2, <2>1 DEF Nodes
  <2> QED
    BY <2>2, NodeNodes
<1> QED
  BY <1>1, <1>2 DEF MtimeOnly

(* So is a new directory. *)
LEMMA NewDirNode == NewDir \in Node
<1>1. 493 \in Mode /\ Now \in Number /\ Self \in Number /\ << >> \in Body /\ "dir" \in NodeKind
  BY DEF Now, Self, Mode, Number, Body, NodeKind
<1>2. NewDir \in Nodes
  BY ONLY <1>1 DEF NewDir, Nodes
<1> QED
  BY <1>2, NodeNodes

(* A file or a link that was just made. *)
IsMade(kind, body, m) == m = [NewDir EXCEPT !.kind = kind, !.body = body]

(* So is what is made of an entry. *)
LEMMA MadeNode ==
  ASSUME NEW kind \in {"file", "dir", "link", "chr", "fifo"}, NEW body \in Seq(Nat),
         NEW m, IsMade(kind, body, m)
  PROVE  m \in Node /\ m.kind = kind /\ m.body = body
<1>1. NewDir \in Nodes /\ kind \in NodeKind /\ body \in Body
  BY NewDirNode, NodeNodes DEF NodeKind, Body
<1>2. m \in Nodes /\ m.kind = kind /\ m.body = body
  BY ONLY <1>1, IsMade(kind, body, m) DEF IsMade, Nodes
<1> QED
  BY <1>2, NodeNodes

(* A node of an entry, but for what set_unix_permissions may not set. *)
LEMMA PermittedNode ==
  ASSUME NEW node \in Node, NEW n \in Node, NEW lh, NEW ch, NEW r,
         r = set_unix_permissions(node, lh, ch), ch.mode = n.mode,
         unpack_unix(lh).uid = n.uid % 65536, unpack_unix(lh).gid = n.gid % 65536,
         unpack_unix(lh).atime = n.atime, unpack_unix(lh).mtime = n.mtime
  PROVE  /\ r \in Node /\ r.kind = node.kind /\ r.body = node.body
         /\ r.mode = n.mode % 512
         /\ n.uid < 65536 => r.uid = n.uid
         /\ n.gid < 65536 => r.gid = n.gid
         /\ n.atime # 0 => r.atime = n.atime /\ r.mtime = n.mtime
<1> PICK no, nu, ng, na, nt : no = n.mode /\ nu = n.uid /\ ng = n.gid /\ na = n.atime /\ nt = n.mtime
  OBVIOUS
<1>1. no \in 0..4095 /\ nu \in Nat /\ ng \in Nat /\ na \in Nat /\ nt \in Nat
  BY NodeFields
<1>2. node.atime \in Nat /\ node.mtime \in Nat
  BY NodeFields
<1> PICK m : m = no % 512
  OBVIOUS
<1> PICK u : u = nu % 65536
  OBVIOUS
<1> PICK g : g = ng % 65536
  OBVIOUS
<1>3. m \in 0..4095 /\ u \in Nat /\ g \in Nat /\ (nu < 65536 => u = nu) /\ (ng < 65536 => g = ng)
  <2>1. no \in Nat
    BY ONLY <1>1
  <2>2. m \in 0..511
    BY ONLY <2>1, m = no % 512
  <2>3. u \in Nat /\ (nu < 65536 => u = nu)
    BY ONLY <1>1, u = nu % 65536
  <2>4. g \in Nat /\ (ng < 65536 => g = ng)
    BY ONLY <1>1, g = ng % 65536
  <2> QED
    <3>1. m \in 0..4095
      BY ONLY <2>2
    <3> QED
      BY ONLY <2>3, <2>4, <3>1
<1> PICK at : at = IF na # 0 THEN na ELSE node.atime
  OBVIOUS
<1> PICK mt : mt = IF na # 0 THEN nt ELSE node.mtime
  OBVIOUS
<1>4. at \in Nat /\ mt \in Nat
  BY ONLY <1>1, <1>2, at = (IF na # 0 THEN na ELSE node.atime), mt = (IF na # 0 THEN nt ELSE node.mtime)
<1> PICK ue : ue = unpack_unix(lh)
  OBVIOUS
<1>5. r = [node EXCEPT !.mode = ch.mode % 512, !.uid = ue.uid, !.gid = ue.gid,
                       !.atime = IF ue.atime # 0 THEN ue.atime ELSE @,
                       !.mtime = IF ue.atime # 0 THEN ue.mtime ELSE @]
  BY ONLY r = set_unix_permissions(node, lh, ch), ue = unpack_unix(lh) DEF set_unix_permissions
<1>6. ch.mode % 512 = m /\ ue.uid = u /\ ue.gid = g /\ ue.atime = na /\ ue.mtime = nt
  OBVIOUS
<1>7. node \in Nodes /\ m \in Mode /\ u \in Number /\ g \in Number /\ at \in Number /\ mt \in Number
  <2>1. node \in Nodes
    BY NodeNodes
  <2> QED
    BY ONLY <1>3, <1>4, <2>1 DEF Mode, Number
<1>10. /\ n.mode % 512 = m /\ n.atime = na /\ n.mtime = nt
       /\ n.uid < 65536 => u = n.uid
       /\ n.gid < 65536 => g = n.gid
  <2>1. no = n.mode /\ nu = n.uid /\ ng = n.gid /\ na = n.atime /\ nt = n.mtime /\ m = no % 512
    OBVIOUS
  <2>2. n.mode % 512 = m
    BY ONLY <2>1
  <2>3. (n.uid < 65536 => u = n.uid) /\ (n.gid < 65536 => g = n.gid)
    BY ONLY <1>3, <2>1
  <2> QED
    BY ONLY <2>1, <2>2, <2>3
<1>8. CASE na # 0
  <2>1. at = na /\ mt = nt
    BY <1>8
  <2>2. r = [node EXCEPT !.mode = m, !.uid = u, !.gid = g, !.atime = na, !.mtime = nt]
    BY ONLY <1>5, <1>6, <1>8
  <2>3. /\ r \in Nodes /\ r.kind = node.kind /\ r.body = node.body /\ r.mode = m /\ r.uid = u /\ r.gid = g
        /\ r.atime = na /\ r.mtime = nt
    BY ONLY <1>7, <2>1, <2>2 DEF Nodes
  <2>4. r \in Node
    BY <2>3, NodeNodes
  <2>5. r.mode = n.mode % 512
    BY ONLY <1>10, <2>3
  <2>6. (n.uid < 65536 => r.uid = n.uid) /\ (n.gid < 65536 => r.gid = n.gid)
    BY ONLY <1>10, <2>3
  <2>7. n.atime # 0 => r.atime = n.atime /\ r.mtime = n.mtime
    BY ONLY <1>10, <2>3
  <2> QED
    BY ONLY <2>3, <2>4, <2>5, <2>6, <2>7
<1>9. CASE na = 0
  <2>2. r = [node EXCEPT !.mode = m, !.uid = u, !.gid = g, !.atime = @, !.mtime = @]
    BY ONLY <1>5, <1>6, <1>9
  <2>3. /\ r \in Nodes /\ r.kind = node.kind /\ r.body = node.body /\ r.mode = m /\ r.uid = u /\ r.gid = g
    BY ONLY <1>7, <2>2 DEF Nodes
  <2>4. r \in Node
    BY <2>3, NodeNodes
  <2>5. r.mode = n.mode % 512
    BY ONLY <1>10, <2>3
  <2>6. (n.uid < 65536 => r.uid = n.uid) /\ (n.gid < 65536 => r.gid = n.gid)
    BY ONLY <1>10, <2>3
  <2>7. n.atime # 0 => r.atime = n.atime /\ r.mtime = n.mtime
    BY ONLY <1>9, <1>10, <2>3
  <2> QED
    BY ONLY <2>3, <2>4, <2>5, <2>6, <2>7
<1> QED
  BY <1>8, <1>9

(* A file system that is unpacked to. *)
IsTarget(fs) ==
  /\ << >> \notin DOMAIN fs
  /\ \A q \in DOMAIN fs : /\ q \in Seq(Name) /\ fs[q] \in Node
                          /\ fs[q].kind = "dir" => fs[q].body = << >>

(* A node that stays what it is, while its directory may grow. *)
Stays(n, m) ==
  /\ m.kind = n.kind /\ m.body = n.body /\ m.mode = n.mode
  /\ m.uid = n.uid /\ m.gid = n.gid /\ m.atime = n.atime
  /\ n.kind # "dir" => m = n

(* One with more in it. *)
Grown(fs, new, t) ==
  /\ IsTarget(t) /\ DOMAIN t = DOMAIN fs \cup new
  /\ \A q \in DOMAIN fs : Stays(fs[q], t[q])

(* mkdirp keeps a file system one. *)
LEMMA MkdirpKeeps ==
  ASSUME NEW fs, NEW p \in Seq(Name), NEW t, IsTarget(fs), CanMkdir(fs, p), t = mkdirp(fs, p)
  PROVE  Grown(fs, Above(p), t) /\ \A q \in Above(p) : t[q].kind = "dir"
<1>1. /\ DOMAIN t = DOMAIN fs \cup Above(p)
      /\ \A q \in DOMAIN fs : MtimeOnly(fs[q], t[q])
      /\ \A q \in DOMAIN fs : fs[q].kind # "dir" => t[q] = fs[q]
      /\ \A q \in Above(p) \ DOMAIN fs : MtimeOnly(NewDir, t[q])
  BY MkdirpFacts DEF IsTarget
<1>2. ASSUME NEW q \in DOMAIN fs
      PROVE  Stays(fs[q], t[q]) /\ q \in Seq(Name) /\ t[q] \in Node /\ (t[q].kind = "dir" => t[q].body = << >>)
  <2> PICK n : n = fs[q]
    OBVIOUS
  <2> PICK m : m = t[q]
    OBVIOUS
  <2>1. n \in Node /\ q \in Seq(Name) /\ (n.kind = "dir" => n.body = << >>)
    BY DEF IsTarget
  <2>2. MtimeOnly(n, m) /\ (n.kind # "dir" => m = n)
    BY <1>1
  <2>3. m \in Node /\ m.kind = n.kind /\ m.body = n.body /\ m.mode = n.mode
        /\ m.uid = n.uid /\ m.gid = n.gid /\ m.atime = n.atime
    BY <2>1, <2>2, MtimeNode
  <2> QED
    BY <2>1, <2>2, <2>3 DEF Stays
<1>3. ASSUME NEW q \in Above(p), q \notin DOMAIN fs
      PROVE  t[q] \in Node /\ t[q].kind = "dir" /\ t[q].body = << >>
  <2> PICK m : m = t[q]
    OBVIOUS
  <2>1. MtimeOnly(NewDir, m)
    BY <1>1, <1>3
  <2>2. m \in Node /\ m.kind = NewDir.kind /\ m.body = NewDir.body
    BY <2>1, NewDirNode, MtimeNode
  <2> QED
    BY <2>2 DEF NewDir
<1>4. ASSUME NEW q \in Above(p) PROVE q \in Seq(Name) /\ q # << >>
  BY AboveFacts, FrontIsAbove
<1>5. ASSUME NEW q \in Above(p) PROVE t[q].kind = "dir"
  <2>1. CASE q \in DOMAIN fs
    BY <1>2, <2>1 DEF CanMkdir, Stays
  <2>2. CASE q \notin DOMAIN fs
    BY <1>3, <2>2
  <2> QED
    BY <2>1, <2>2
<1>6. IsTarget(t)
  <2>1. << >> \notin DOMAIN t
    BY <1>1, <1>4 DEF IsTarget
  <2>2. ASSUME NEW q \in DOMAIN t
        PROVE  q \in Seq(Name) /\ t[q] \in Node /\ (t[q].kind = "dir" => t[q].body = << >>)
    BY <1>1, <1>2, <1>3, <1>4, <2>2
  <2> QED
    BY <2>1, <2>2 DEF IsTarget
<1> QED
  BY <1>1, <1>2, <1>5, <1>6 DEF Grown

(* What is above it is a directory, or the root. *)
HasPlace(fs, p) == Front(p) \in DOMAIN fs => fs[Front(p)].kind = "dir"

(* So does putting an entry. *)
LEMMA PutKeeps ==
  ASSUME NEW fs, NEW p \in Seq(Name), NEW node \in Node, NEW t,
         IsTarget(fs), p # << >>, p \notin DOMAIN fs, HasPlace(fs, p),
         node.kind # "dir", t = Put(fs, p, node)
  PROVE  Grown(fs, {p}, t) /\ t[p] = node
<1>1. /\ DOMAIN t = DOMAIN fs \cup {p} /\ t[p] = node
      /\ \A q \in DOMAIN fs : MtimeOnly(fs[q], t[q])
      /\ \A q \in DOMAIN fs : q # Front(p) => t[q] = fs[q]
  <2>1. PutTo(fs, p, node, t)
    BY PutFacts
  <2> QED
    BY ONLY <2>1 DEF PutTo
<1>2. ASSUME NEW q \in DOMAIN fs
      PROVE  Stays(fs[q], t[q]) /\ q \in Seq(Name) /\ t[q] \in Node /\ (t[q].kind = "dir" => t[q].body = << >>)
  <2> PICK n : n = fs[q]
    OBVIOUS
  <2> PICK m : m = t[q]
    OBVIOUS
  <2>1. n \in Node /\ q \in Seq(Name) /\ (n.kind = "dir" => n.body = << >>)
    BY DEF IsTarget
  <2>2. MtimeOnly(n, m) /\ (n.kind # "dir" => m = n)
    BY <1>1 DEF HasPlace
  <2>3. m \in Node /\ m.kind = n.kind /\ m.body = n.body /\ m.mode = n.mode
        /\ m.uid = n.uid /\ m.gid = n.gid /\ m.atime = n.atime
    BY <2>1, <2>2, MtimeNode
  <2> QED
    BY <2>1, <2>2, <2>3 DEF Stays
<1>3. IsTarget(t)
  BY <1>1, <1>2 DEF IsTarget
<1> QED
  BY <1>1, <1>2, <1>3 DEF Grown

(* A file or a link in directories that are made for it. *)
LEMMA PutFileFacts ==
  ASSUME NEW fs, NEW p \in Seq(Name), NEW node \in Node, NEW t,
         IsTarget(fs), p # << >>, p \notin DOMAIN fs, CanMkdir(fs, Front(p)),
         node.kind # "dir", t = Put(create_dirs_for_file(fs, p), p, node)
  PROVE  /\ Grown(fs, Above(p), t) /\ t[p] = node
         /\ \A q \in DOMAIN t \ DOMAIN fs : q # p => t[q].kind = "dir"
<1> PICK f : f = Front(p)
  OBVIOUS
<1>1. f \in Seq(Name) /\ f # p
  BY FrontFacts
<1> PICK d : d = mkdirp(fs, f)
  OBVIOUS
<1>2. /\ IsTarget(d) /\ DOMAIN d = DOMAIN fs \cup Above(f)
      /\ \A q \in DOMAIN fs : Stays(fs[q], d[q])
      /\ \A q \in Above(f) : d[q].kind = "dir"
  <2>1. Grown(fs, Above(f), d) /\ \A q \in Above(f) : d[q].kind = "dir"
    BY <1>1, MkdirpKeeps
  <2> QED
    BY <2>1 DEF Grown
<1>3. Above(p) = Above(f) \cup {p} /\ p \notin Above(f)
  BY AboveFront
<1>4. p \notin DOMAIN d
  BY <1>2, <1>3
<1>5. ASSUME f \in DOMAIN d PROVE d[f].kind = "dir"
  <2>1. f # << >>
    BY <1>2, <1>5 DEF IsTarget
  <2>2. f \in Above(f)
    BY <1>1, <2>1, AboveFront
  <2> QED
    BY <1>2, <2>2
<1>6. t = Put(d, p, node)
  BY DEF create_dirs_for_file
<1>7. /\ IsTarget(t) /\ DOMAIN t = DOMAIN d \cup {p} /\ t[p] = node
      /\ \A q \in DOMAIN d : Stays(d[q], t[q])
  <2>1. IsTarget(d) /\ HasPlace(d, p)
    BY <1>2, <1>5 DEF HasPlace
  <2>2. p \in Seq(Name) /\ p # << >> /\ node \in Node /\ node.kind # "dir"
    OBVIOUS
  <2> QED
    <3>1. Grown(d, {p}, t) /\ t[p] = node
      BY ONLY <1>4, <1>6, <2>1, <2>2, PutKeeps, Zenon
    <3> QED
      BY <3>1 DEF Grown
<1>8. ASSUME NEW q \in DOMAIN fs PROVE Stays(fs[q], t[q])
  <2>1. Stays(fs[q], d[q]) /\ Stays(d[q], t[q])
    BY <1>2, <1>7
  <2> QED
    BY <2>1 DEF Stays
<1>9. ASSUME NEW q \in DOMAIN t \ DOMAIN fs, q # p PROVE t[q].kind = "dir"
  <2>1. q \in DOMAIN d /\ d[q].kind = "dir"
    BY <1>2, <1>7, <1>9
  <2> QED
    BY <1>7, <2>1 DEF Stays
<1>10. DOMAIN t = DOMAIN fs \cup Above(p)
  BY <1>2, <1>3, <1>7
<1> QED
  BY <1>7, <1>8, <1>9, <1>10 DEF Grown

(* What an entry leaves that could be made. *)
Unpacked(e, path, t) ==
  LET n == tree[Path(e.central.fname)]
  IN  /\ IsTarget(t) /\ DOMAIN t = DOMAIN target \cup Above(path)
      /\ \A q \in DOMAIN target : q # path => Stays(target[q], t[q])
      /\ \A q \in DOMAIN t \ DOMAIN target : q # path => t[q].kind = "dir"
      /\ n.kind \in {"file", "dir", "link"}
      /\ Kept(n, t[path])
      /\ t[path].body = IF n.kind = "dir" THEN << >> ELSE e.local.crc32
      /\ n.kind # "dir" => path \notin DOMAIN target

(* What is made of a file or a link. *)
LEMMA MadeFacts ==
  ASSUME NEW e, NEW path \in Seq(Name), NEW n, NEW node, NEW t,
         IsTarget(target), Tells(e.local, e.central, e.data), n = tree[Path(e.central.fname)],
         path # << >>, path \notin DOMAIN target, CanMkdir(target, Front(path)),
         n.kind \in {"file", "link"}, node \in Node, Kept(n, node), node.body = e.local.crc32,
         t = Put(create_dirs_for_file(target, path), path, node)
  PROVE  Unpacked(e, path, t)
<1>1. node.kind # "dir"
  BY DEF Kept
<1>2. /\ Grown(target, Above(path), t) /\ t[path] = node
      /\ \A q \in DOMAIN t \ DOMAIN target : q # path => t[q].kind = "dir"
  BY <1>1, PutFileFacts
<1> QED
  BY <1>2 DEF Unpacked, Grown

(* What is made of any entry that can be made. *)
LEMMA CreatedFacts ==
  ASSUME NEW e, NEW path \in Seq(Name), NEW t,
         IsTarget(target), Tells(e.local, e.central, e.data),
         path # << >>, CanCreate(e, path), t = Created(e, path)
  PROVE  Unpacked(e, path, t)
<1> PICK lh, ch, body : lh = e.local /\ ch = e.central /\ body = Decode(ch.compression_method, e.data)
  OBVIOUS
<1> PICK n : n = tree[Path(ch.fname)]
  OBVIOUS
<1>1. /\ n \in Node /\ ch.type = n.kind /\ n.kind # "fifo" /\ ch.mode = n.mode
      /\ unpack_unix(lh).uid = n.uid % 65536 /\ unpack_unix(lh).gid = n.gid % 65536
      /\ unpack_unix(lh).atime = n.atime /\ unpack_unix(lh).mtime = n.mtime
      /\ Len(unpack_unix(lh).data) = 0
      /\ lh.crc32 \in Seq(Nat) /\ body = lh.crc32
  BY DEF Tells
<1>2. n.kind \in {"file", "dir", "link", "chr"}
  BY <1>1, NodeFields
<1>3. n.kind # "chr"
  BY <1>1 DEF CanCreate
<1>4. CASE n.kind = "dir"
  <2> PICK d : d = mkdirp(target, path)
    OBVIOUS
  <2>1. CanMkdir(target, path)
    BY <1>1, <1>4 DEF CanCreate
  <2>2. Grown(target, Above(path), d) /\ \A q \in Above(path) : d[q].kind = "dir"
    BY <2>1, MkdirpKeeps
  <2>3. path \in Above(path)
    BY AboveFront
  <2>4. IsTarget(d) /\ path \in DOMAIN d /\ d[path] \in Node /\ d[path].kind = "dir" /\ d[path].body = << >>
    BY <2>2, <2>3 DEF Grown, IsTarget
  <2> PICK old : old = d[path]
    OBVIOUS
  <2> PICK new : new = set_unix_permissions(old, lh, ch)
    OBVIOUS
  <2>5. t = [d EXCEPT ![path] = new]
    BY <1>1, <1>4 DEF Created
  <2>6. /\ new \in Node /\ new.kind = old.kind /\ new.body = old.body
        /\ new.mode = n.mode % 512
        /\ n.uid < 65536 => new.uid = n.uid
        /\ n.gid < 65536 => new.gid = n.gid
    <3>1. old \in Node
      BY <2>4
    <3> QED
      BY <1>1, <3>1, PermittedNode
  <2>7. Kept(n, new)
    BY <1>4, <2>4, <2>6 DEF Kept
  <2>8. DOMAIN t = DOMAIN d /\ t[path] = new /\ \A q \in DOMAIN d : q # path => t[q] = d[q]
    BY <2>4, <2>5
  <2>9. IsTarget(t)
    BY <2>4, <2>6, <2>8 DEF IsTarget
  <2> QED
    BY <1>4, <2>2, <2>4, <2>6, <2>7, <2>8, <2>9 DEF Unpacked, Grown
<1>5. PICK made : IsMade(n.kind, body, made)
  BY DEF IsMade
<1>8. made \in Node /\ made.kind = n.kind /\ made.body = body
  <2>1. n.kind \in {"file", "dir", "link", "chr", "fifo"} /\ body \in Seq(Nat)
    BY <1>1, <1>2
  <2> QED
    BY ONLY <1>5, <2>1, MadeNode
<1>6. CASE n.kind = "link"
  <2>1. t = Put(create_dirs_for_file(target, path), path, made)
    BY <1>1, <1>5, <1>6 DEF Created, IsMade
  <2>2. path \notin DOMAIN target /\ CanMkdir(target, Front(path))
    BY <1>1, <1>6 DEF CanCreate
  <2>3. Kept(n, made)
    BY <1>6, <1>8 DEF Kept
  <2>4. n = tree[Path(e.central.fname)] /\ n.kind \in {"file", "link"} /\ made.body = e.local.crc32
    BY <1>1, <1>6, <1>8
  <2> QED
    BY <1>8, <2>1, <2>2, <2>3, <2>4, MadeFacts
<1>7. CASE n.kind = "file"
  <2> PICK new : new = set_unix_permissions(made, lh, ch)
    OBVIOUS
  <2>1. t = Put(create_dirs_for_file(target, path), path, new)
    BY <1>1, <1>5, <1>7 DEF Created, IsMade
  <2>2. path \notin DOMAIN target /\ CanMkdir(target, Front(path))
    BY <1>1, <1>7 DEF CanCreate
  <2>3. /\ new \in Node /\ new.kind = made.kind /\ new.body = made.body
        /\ new.mode = n.mode % 512
        /\ n.uid < 65536 => new.uid = n.uid
        /\ n.gid < 65536 => new.gid = n.gid
        /\ n.atime # 0 => new.atime = n.atime /\ new.mtime = n.mtime
    <3>1. made \in Node /\ new = set_unix_permissions(made, lh, ch)
      BY <1>8
    <3> QED
      BY <1>1, <3>1, PermittedNode
  <2>4. Kept(n, new)
    BY <1>7, <1>8, <2>3 DEF Kept
  <2>5. /\ n = tree[Path(e.central.fname)] /\ n.kind \in {"file", "link"} /\ new \in Node
        /\ new.body = e.local.crc32
    BY <1>1, <1>7, <1>8, <2>3
  <2> QED
    BY <2>1, <2>2, <2>4, <2>5, MadeFacts
<1> QED
  BY <1>2, <1>3, <1>4, <1>6, <1>7

(* Where the entry of something that was chosen goes. *)
LEMMA PrefixFacts ==
  ASSUME BaseInv
  PROVE  prefix \in Name /\ Path(prefix) \in Seq(Name)
<1>1. prefix \in Name
  BY RoundTripAssumption, EmptyName DEF BaseInv, Name
<1> QED
  BY <1>1, PathType

(* What was chosen is in the tree. *)
LEMMA ChosenFacts ==
  ASSUME tree \in Trees, NEW p \in Chosen
  PROVE  p \in DOMAIN tree /\ p \in Seq(FileName) /\ p \in Seq(Name) /\ p # << >> /\ tree[p] \in Node
<1>1. p \in DOMAIN tree
  BY DEF Chosen
<1> QED
  BY <1>1, TreeFacts DEF IsFileSystem

(* It has a place below the destination. *)
LEMMA AtFacts ==
  ASSUME BaseInv, NEW p \in Chosen
  PROVE  At(p) \in Seq(Name) /\ At(p) # << >>
<1> PICK w : w = Path(prefix)
  OBVIOUS
<1>1. w \in Seq(Name) /\ p \in Seq(Name) /\ p # << >>
  BY PrefixFacts, ChosenFacts DEF BaseInv
<1>2. Len(w) \in Nat /\ Len(p) \in Nat \ {0}
  BY <1>1, LenProperties, EmptySeq
<1> PICK a : a = w \o p
  OBVIOUS
<1>3. a \in Seq(Name) /\ Len(a) = Len(w) + Len(p)
  BY <1>1, ConcatProperties
<1>4. a # << >>
  BY <1>2, <1>3
<1> QED
  BY <1>3, <1>4 DEF At

(* The entry of a task. *)
PathOf(j) == Path(chs[j].fname)

(* An entry that was read is one that parzip wrote. *)
LEMMA EntryFacts ==
  ASSUME BaseInv, ReadInv, stage \in {"list", "unpack", "exit"}, NEW j \in 1..Len(chs)
  PROVE  /\ Tells(entries[j].local, entries[j].central, entries[j].data)
         /\ entries[j].central = chs[j] /\ entries[j].local.fname = chs[j].fname
         /\ chs[j].fname \in Name /\ PathOf(j) \in Chosen
<1>1. entries[j].central = chs[j] /\ IsRead(Makings, entries[j])
  BY DEF ReadInv
<1> PICK e : e = entries[j]
  OBVIOUS
<1>2. Tells(e.local, e.central, e.data)
  BY <1>1, ReadTells DEF BaseInv
<1>3. e.central.fname \in Name /\ Path(e.central.fname) \in Chosen /\ e.local.fname = e.central.fname
  BY <1>2 DEF Tells
<1> QED
  BY <1>1, <1>2, <1>3 DEF PathOf

(* The two ends of a task. *)
MakesIt(j) ==
  /\ Unpacked(entries[j], At(PathOf(j)), target')
  /\ failed' = failed

ReportsIt(j) ==
  /\ ~CanCreate(entries[j], At(PathOf(j)))
  /\ target' = IF CanMkdir(target, Front(At(PathOf(j)))) THEN mkdirp(target, Front(At(PathOf(j)))) ELSE target
  /\ failed' = failed \cup {chs[j].fname}

(* A task makes its entry, or reports it. *)
LEMMA UnpackCases ==
  ASSUME BaseInv, ReadInv, IsTarget(target), NEW i \in DOMAIN waiting, Unpack(i)
  PROVE  /\ waiting[i] \in 1..Len(chs) /\ i \in 1..Len(waiting)
         /\ MakesIt(waiting[i]) \/ ReportsIt(waiting[i])
<1>1. stage = "unpack" /\ waiting \in Seq(1..Len(chs))
  BY DEF Unpack, ReadInv
<1>2. i \in 1..Len(waiting)
  BY <1>1, LenProperties
<1> PICK j \in 1..Len(chs) : j = waiting[i]
  BY <1>1, <1>2, ElementOfSeq
<1> PICK e : e = entries[j]
  OBVIOUS
<1> PICK p : p = PathOf(j)
  OBVIOUS
<1>3. /\ Tells(e.local, e.central, e.data) /\ e.central = chs[j] /\ e.local.fname = chs[j].fname
      /\ chs[j].fname \in Name /\ p \in Chosen
  BY <1>1, EntryFacts
<1> PICK path : path = At(p)
  OBVIOUS
<1>4. path \in Seq(Name) /\ path # << >>
  BY <1>3, AtFacts
<1>5. Path(OutName(prefix, e.local.fname)) = path
  <2>1. Path(OutName(prefix, e.local.fname)) = Path(prefix) \o Path(e.local.fname)
    BY <1>3, PrefixFacts, OutNamePath
  <2> QED
    BY <1>3, <2>1 DEF At, PathOf
<1>6. \/ CanCreate(e, path) /\ target' = Created(e, path) /\ failed' = failed
      \/ /\ ~CanCreate(e, path)
         /\ target' = IF CanMkdir(target, Front(path)) THEN create_dirs_for_file(target, path) ELSE target
         /\ failed' = failed \cup {e.local.fname}
  BY <1>5 DEF Unpack
<1>7. CASE CanCreate(e, path) /\ target' = Created(e, path) /\ failed' = failed
  <2> PICK t : t = target'
    OBVIOUS
  <2>1. Unpacked(e, path, t)
    BY <1>3, <1>4, <1>7, CreatedFacts
  <2> QED
    BY <1>2, <1>7, <2>1 DEF MakesIt
<1>8. CASE /\ ~CanCreate(e, path)
           /\ target' = IF CanMkdir(target, Front(path)) THEN create_dirs_for_file(target, path) ELSE target
           /\ failed' = failed \cup {e.local.fname}
  BY <1>2, <1>3, <1>8 DEF ReportsIt, create_dirs_for_file
<1> QED
  BY <1>6, <1>7, <1>8

(* What a task that reports leaves. *)
LEMMA ReportFacts ==
  ASSUME BaseInv, NEW j, PathOf(j) \in Chosen, IsTarget(target), ReportsIt(j)
  PROVE  IF CanMkdir(target, Front(At(PathOf(j))))
         THEN Grown(target, Above(Front(At(PathOf(j)))), target')
              /\ \A q \in Above(Front(At(PathOf(j)))) : target'[q].kind = "dir"
         ELSE target' = target
<1> PICK f : f = Front(At(PathOf(j)))
  OBVIOUS
<1>1. f \in Seq(Name)
  BY AtFacts, FrontFacts
<1> PICK t : t = target'
  OBVIOUS
<1>2. ASSUME CanMkdir(target, f)
      PROVE  Grown(target, Above(f), t) /\ \A q \in Above(f) : t[q].kind = "dir"
  <2>1. t = mkdirp(target, f)
    BY <1>2 DEF ReportsIt
  <2> QED
    BY <1>1, <1>2, <2>1, MkdirpKeeps
<1> QED
  BY <1>2 DEF ReportsIt

(* The root of what is unpacked to. *)
LEMMA FreshFacts ==
  ASSUME NEW where \in Name, NEW t, t = mkdirp(<< >>, Path(where))
  PROVE  Grown(<< >>, Above(Path(where)), t) /\ DOMAIN t = Above(Path(where))
         /\ \A q \in DOMAIN t : t[q].kind = "dir"
<1> PICK p \in Seq(Name) : p = Path(where)
  BY PathType
<1> PICK fs : fs = << >>
  OBVIOUS
<1>1. DOMAIN fs = {}
  OBVIOUS
<1>2. IsTarget(fs) /\ CanMkdir(fs, p)
  BY <1>1 DEF IsTarget, CanMkdir
<1>3. Grown(fs, Above(p), t) /\ \A q \in Above(p) : t[q].kind = "dir"
  BY <1>2, MkdirpKeeps
<1> QED
  BY <1>1, <1>3 DEF Grown

(* Unpacking starts with every entry waiting, and the destination made. *)
LEMMA StartFacts ==
  ASSUME BaseInv, Parunzip \/ \E folder \in Destinations : UnpackTo(folder)
  PROVE  /\ stage \in {"open", "list"} /\ stage' = "unpack" /\ prefix' \in Name
         /\ target' = mkdirp(<< >>, Path(prefix')) /\ failed' = failed /\ source' = source
         /\ files' = files /\ chs' = chs
         /\ waiting' = [i \in DOMAIN entries' |-> i]
         /\ Grown(<< >>, Above(Path(prefix')), target') /\ DOMAIN target' = Above(Path(prefix'))
         /\ \A q \in DOMAIN target' : target'[q].kind = "dir"
<1>1. PICK where : where \in Name /\ unzip(where) /\ stage \in {"open", "list"}
  <2>1. CASE Parunzip
    BY <2>1, EmptyName DEF Parunzip
  <2>2. CASE \E folder \in Destinations : UnpackTo(folder)
    BY <2>2, RoundTripAssumption DEF UnpackTo, Listed, Name
  <2> QED
    BY <2>1, <2>2
<1>2. /\ stage' = "unpack" /\ prefix' = where /\ target' = mkdirp(<< >>, Path(where)) /\ failed' = failed
      /\ source' = source /\ files' = files /\ chs' = chs /\ waiting' = [i \in DOMAIN entries' |-> i]
  BY <1>1 DEF unzip, packVars
<1> PICK t : t = target'
  OBVIOUS
<1>3. Grown(<< >>, Above(Path(where)), t) /\ DOMAIN t = Above(Path(where)) /\ \A q \in DOMAIN t : t[q].kind = "dir"
  BY <1>1, <1>2, FreshFacts
<1> QED
  BY <1>1, <1>2, <1>3

(* The steps that leave the target as it is. *)
LEMMA TargetStays ==
  ASSUME [Next]_vars, ~(Parunzip \/ \E folder \in Destinations : UnpackTo(folder)),
         ~\E i \in DOMAIN waiting : Unpack(i)
  PROVE  target' = target /\ prefix' = prefix /\ waiting' = waiting
<1>1. CASE UNCHANGED vars \/ Exited
  BY <1>1 DEF vars, unpackVars, Exited
<1>2. CASE \E p \in Editable : Edit(p)
  BY <1>2 DEF Edit, unpackVars
<1>3. CASE Scan \/ ScanFails \/ Seal
  BY <1>3 DEF Scan, ScanFails, Seal, unpackVars
<1>4. CASE (\E i \in DOMAIN files : Pack(i)) \/ (\E i \in DOMAIN files : Abort(i))
  BY <1>4 DEF Pack, Abort, unpackVars
<1>5. CASE OpenFails \/ OpenFile \/ (\E f \in Folders : ListFolder(f)) \/ Finish
  BY <1>5 DEF OpenFails, OpenFile, ListFolder, Finish, unpackVars
<1> QED
  BY <1>1, <1>2, <1>3, <1>4, <1>5 DEF Next

(* What is unpacked to is a file system: no call of the readers can break  *)
(* it.                                                                     *)
LEMMA TargetNext ==
  ASSUME RecordInv, IsTarget(target), [Next]_vars
  PROVE  IsTarget(target')
<1>1. CASE Parunzip \/ \E folder \in Destinations : UnpackTo(folder)
  BY <1>1, StartFacts DEF RecordInv, Grown
<1>2. CASE \E i \in DOMAIN waiting : Unpack(i)
  <2> PICK i \in DOMAIN waiting : Unpack(i)
    BY <1>2
  <2> PICK j : j = waiting[i]
    OBVIOUS
  <2>1. j \in 1..Len(chs) /\ (MakesIt(j) \/ ReportsIt(j))
    BY UnpackCases DEF RecordInv
  <2>2. CASE MakesIt(j)
    BY <2>2 DEF MakesIt, Unpacked
  <2>3. CASE ReportsIt(j)
    <3>1. PathOf(j) \in Chosen
      BY <2>1, EntryFacts DEF RecordInv, Unpack
    <3> QED
      BY <2>3, <3>1, ReportFacts DEF RecordInv, Grown
  <2> QED
    BY <2>1, <2>2, <2>3
<1>3. CASE ~(Parunzip \/ \E folder \in Destinations : UnpackTo(folder)) /\ ~\E i \in DOMAIN waiting : Unpack(i)
  BY <1>3, TargetStays
<1> QED
  BY <1>1, <1>2, <1>3

(* What is unpacked to is always a file system. *)
LEMMA TargetsInvariant == Spec => [](RecordInv /\ IsTarget(target))
<1>1. Init => IsTarget(target)
  <2>1. DOMAIN << >> = {}
    OBVIOUS
  <2> QED
    BY <2>1 DEF Init, IsTarget
<1>2. RecordInv /\ IsTarget(target) /\ [Next]_vars => (IsTarget(target))'
  BY TargetNext
<1> QED
  BY <1>1, <1>2, RecordInit, RecordNext, PTL DEF Spec

(* The cells of an archive are of the kinds that a reader knows. *)
CellKind == {"local", "data", "central", "z64end", "z64loc", "end"}

(* An archive of parzip has no other cells. *)
LEMMA CellKinds ==
  ASSUME BaseInv, PackInv
  PROVE  \A p \in DOMAIN archive : archive[p].kind \in CellKind
<1>0. IsSeq(archive) /\ IsSeq(chs) /\ tree \in Trees /\ args \in Arguments
  BY DEF BaseInv, PackInv
<1>1. DOMAIN archive = 1..Len(archive) /\ Len(archive) \in Nat /\ Len(chs) \in Nat
  BY <1>0, IsSeqFacts
<1>2. CASE archive = << >>
  BY <1>2
<1>3. ASSUME NEW end, Layout(Makings, archive, chs, end), NEW p \in 1..(end - 1)
      PROVE  archive[p].kind \in CellKind
  BY <1>3 DEF Layout, CellKind
<1>4. CASE Layout(Makings, archive, chs, Len(archive) + 1)
  BY <1>1, <1>3, <1>4
<1>5. ASSUME NEW end, Layout(Makings, archive, chs, end), Sealed(archive, chs, end)
      PROVE  \A p \in DOMAIN archive : archive[p].kind \in CellKind
  <2>1. end \in Nat /\ Len(archive) = end + Len(chs) + 2
    BY <1>1, <1>5 DEF Layout, Sealed
  <2>2. ASSUME NEW i \in 1..Len(chs) PROVE archive[end + i - 1].kind = "central"
    <3>1. archive[end + i - 1] = chs[i]
      BY <1>5 DEF Sealed
    <3>2. Tells(archive[chs[i].offset + 1], chs[i],
                DataAt(archive, chs[i].offset + 1, SizeOf(archive[chs[i].offset + 1])))
      BY <1>0, <1>5, CellFacts
    <3> QED
      BY <3>1, <3>2 DEF Tells
  <2>3. /\ archive[end + Len(chs)].kind = "z64end" /\ archive[end + Len(chs) + 1].kind = "z64loc"
        /\ archive[end + Len(chs) + 2].kind = "end"
    BY <1>5 DEF Sealed
  <2> SUFFICES ASSUME NEW p \in 1..Len(archive) PROVE archive[p].kind \in CellKind
    BY <1>1
  <2>4. CASE p < end
    BY <1>3, <1>5, <2>1, <2>4
  <2>5. CASE p >= end /\ p < end + Len(chs)
    <3>1. p - end + 1 \in 1..Len(chs) /\ end + (p - end + 1) - 1 = p
      BY <1>1, <2>1, <2>5
    <3>2. archive[end + (p - end + 1) - 1].kind = "central"
      BY <2>2, <3>1
    <3> QED
      BY <3>1, <3>2 DEF CellKind
  <2>6. CASE p >= end + Len(chs)
    <3>1. p \in {end + Len(chs), end + Len(chs) + 1, end + Len(chs) + 2}
      BY <1>1, <2>1, <2>6
    <3> QED
      BY <2>3, <3>1 DEF CellKind
  <2> QED
    BY <1>1, <2>1, <2>4, <2>5, <2>6
<1>6. \/ archive = << >> \/ Layout(Makings, archive, chs, Len(archive) + 1)
      \/ \E end : Layout(Makings, archive, chs, end) /\ Sealed(archive, chs, end)
  BY DEF PackInv, BaseInv
<1> QED
  BY <1>2, <1>4, <1>5, <1>6

(* The file systems, the records and the archive have their types, the     *)
(* indices their ranges: no task unpacks an entry that is not there.       *)
THEOREM RoundTripTypes == Spec => []TypeOK
<1>1. RecordInv /\ IsTarget(target) => TypeOK
  <2> SUFFICES ASSUME RecordInv, IsTarget(target) PROVE TypeOK
    OBVIOUS
  <2>0. BaseInv /\ PackInv /\ ReadInv
    BY DEF RecordInv
  <2>1. ASSUME NEW i \in DOMAIN files PROVE files[i].uid < 65536 /\ files[i].gid < 65536
    <3>1. files[i] \in Stats
      BY <2>0, ElementOfSeq, LenProperties DEF PackInv
    <3> PICK fi : fi = files[i]
      OBVIOUS
    <3> PICK n : n = tree[Path(fi.fname)]
      OBVIOUS
    <3>2. n \in Node /\ fi.uid = n.uid % 65536 /\ fi.gid = n.gid % 65536
      BY <2>0, <3>1, StatFacts DEF BaseInv, StatOf
    <3> PICK u, g : u = n.uid /\ g = n.gid
      OBVIOUS
    <3>3. u \in Nat /\ g \in Nat
      BY <3>2, NodeFields
    <3>4. u % 65536 < 65536 /\ g % 65536 < 65536
      BY ONLY <3>3
    <3> QED
      BY <3>2, <3>4
  <2>2. \A p \in DOMAIN archive : archive[p].kind \in {"local", "data", "central", "z64end", "z64loc", "end"}
    BY <2>0, CellKinds DEF CellKind
  <2>3. \A i \in DOMAIN waiting : waiting[i] \in DOMAIN entries
    <3>1. CASE stage \in {"unpack", "exit"}
      <4>1. waiting \in Seq(1..Len(chs)) /\ DOMAIN entries = 1..Len(chs)
        BY <2>0, <3>1 DEF ReadInv
      <4>2. \A i \in DOMAIN waiting : waiting[i] \in 1..Len(chs)
        BY <4>1, ElementOfSeq, LenProperties
      <4> QED
        BY <4>1, <4>2
    <3>2. CASE stage \notin {"unpack", "exit"}
      BY <2>0, <3>2 DEF ReadInv
    <3> QED
      BY <3>1, <3>2
  <2>4. \A p \in DOMAIN target : target[p] \in Node
    BY DEF IsTarget
  <2> QED
    BY <2>0, <2>1, <2>2, <2>3, <2>4 DEF BaseInv, TypeOK
<1> QED
  BY <1>1, TargetsInvariant, PTL

-----------------------------------------------------------------------------
(* Paths below the destination are as they were below the root. *)

LEMMA ConcatAt ==
  ASSUME NEW X, NEW w \in Seq(X), NEW p \in Seq(X)
  PROVE  /\ w \o p \in Seq(X) /\ Len(w \o p) = Len(w) + Len(p) /\ Len(w) \in Nat /\ Len(p) \in Nat
         /\ \A i \in 1..Len(w) : (w \o p)[i] = w[i]
         /\ \A i \in 1..Len(p) : (w \o p)[Len(w) + i] = p[i]
<1> PICK m \in Nat : m = Len(w)
  BY LenProperties
<1> PICK n \in Nat : n = Len(p)
  BY LenProperties
<1> PICK a : a = w \o p
  OBVIOUS
<1>1. a \in Seq(X) /\ Len(a) = m + n /\ \A i \in 1..(m + n) : a[i] = IF i <= m THEN w[i] ELSE p[i - m]
  BY ConcatProperties
<1>2. \A i \in 1..m : a[i] = w[i]
  BY <1>1
<1>3. ASSUME NEW i \in 1..n PROVE a[m + i] = p[i]
  <2>1. m + i \in 1..(m + n) /\ ~(m + i <= m) /\ m + i - m = i
    OBVIOUS
  <2> QED
    BY <1>1, <2>1
<1> QED
  BY <1>1, <1>2, <1>3

(* Paths below one place differ as they did before. *)
LEMMA ConcatCancels ==
  ASSUME NEW X, NEW w \in Seq(X), NEW p \in Seq(X), NEW q \in Seq(X), w \o p = w \o q
  PROVE  p = q
<1> PICK m \in Nat : m = Len(w)
  BY LenProperties
<1> PICK a : a = w \o p
  OBVIOUS
<1>1. Len(a) = m + Len(p) /\ Len(p) \in Nat /\ \A i \in 1..Len(p) : a[m + i] = p[i]
  BY ConcatAt
<1>2. a = w \o q
  OBVIOUS
<1>3. Len(a) = m + Len(q) /\ Len(q) \in Nat /\ \A i \in 1..Len(q) : a[m + i] = q[i]
  BY <1>2, ConcatAt
<1>4. Len(p) = Len(q)
  BY <1>1, <1>3
<1>5. \A i \in 1..Len(p) : p[i] = q[i]
  BY <1>1, <1>3, <1>4
<1>6. p = [i \in 1..Len(p) |-> p[i]] /\ q = [i \in 1..Len(p) |-> q[i]]
  BY <1>4, LenProperties
<1> QED
  BY <1>5, <1>6

(* One is on the way to another only if it was before. *)
LEMMA ConcatAbove ==
  ASSUME NEW X, NEW w \in Seq(X), NEW p \in Seq(X), NEW r \in Seq(X), r # << >>
  PROVE  /\ w \o r \in Above(w \o p) => r \in Above(p)
         /\ w \o r \notin Above(w)
<1> PICK m \in Nat : m = Len(w)
  BY LenProperties
<1> PICK a : a = w \o p
  OBVIOUS
<1> PICK b : b = w \o r
  OBVIOUS
<1>1. a \in Seq(X) /\ Len(a) = m + Len(p) /\ Len(p) \in Nat /\ \A i \in 1..Len(p) : a[m + i] = p[i]
  BY ConcatAt
<1>2. b \in Seq(X) /\ Len(b) = m + Len(r) /\ Len(r) \in Nat /\ \A i \in 1..Len(r) : b[m + i] = r[i]
  BY ConcatAt
<1>3. Len(r) # 0
  BY EmptySeq
<1>4. ASSUME b \in Above(w) PROVE FALSE
  <2>1. Len(b) \in 1..m
    BY <1>4, AboveFacts
  <2> QED
    BY <1>2, <1>3, <2>1
<1>5. ASSUME b \in Above(a) PROVE r \in Above(p)
  <2>1. Len(b) \in 1..Len(a) /\ \A i \in 1..Len(b) : b[i] = a[i]
    <3>1. Len(b) \in 1..Len(a) /\ Agree(b, a, Len(b))
      BY ONLY <1>1, <1>5, AboveFacts
    <3> QED
      BY <3>1 DEF Agree
  <2>2. Len(r) \in 1..Len(p)
    BY <1>1, <1>2, <1>3, <2>1
  <2>3. ASSUME NEW i \in 1..Len(r) PROVE r[i] = p[i]
    <3>1. m + i \in 1..Len(b) /\ i \in 1..Len(p)
      BY <1>1, <1>2, <2>2
    <3>2. b[m + i] = r[i] /\ a[m + i] = p[i] /\ b[m + i] = a[m + i]
      BY <1>1, <1>2, <2>1, <3>1
    <3> QED
      BY <3>2
  <2> QED
    BY <2>2, <2>3, AboveFacts DEF Agree
<1> QED
  BY <1>4, <1>5

(* In a file system, what is on the way to something is a directory. *)
LEMMA OnTheWay ==
  ASSUME NEW fs, IsFileSystem(fs)
  PROVE  \A p \in Seq(FileName) : p \in DOMAIN fs =>
           \A r \in Above(p) : r # p => r \in DOMAIN fs /\ fs[r].kind = "dir"
<1> DEFINE Way(p) == \A r \in Above(p) : r # p => r \in DOMAIN fs /\ fs[r].kind = "dir"
           T == {p \in Seq(FileName) : p \in DOMAIN fs => Way(p)}
<1>1. << >> \in T
  <2>1. << >> \in Seq(FileName)
    OBVIOUS
  <2>2. Above(<< >>) = {}
    BY FrontOfEmpty
  <2> QED
    BY <2>1, <2>2
<1>2. ASSUME NEW s \in Seq(FileName), NEW e \in FileName, s \in T PROVE Append(s, e) \in T
  <2> PICK a : a = Append(s, e)
    OBVIOUS
  <2> PICK n \in Nat : n = Len(s)
    BY LenProperties
  <2>1. a \in Seq(FileName) /\ Len(a) = n + 1 /\ \A i \in 1..n : a[i] = s[i]
    BY AppendProperties
  <2>2. a # << >>
    BY <2>1
  <2>3. Front(a) = s
    <3> PICK f : f = Front(a)
      OBVIOUS
    <3>1. f \in Seq(FileName) /\ Len(f) = n /\ \A i \in 1..n : f[i] = a[i]
      <4>1. Len(a) - 1 = n
        BY <2>1
      <4> QED
        BY <2>1, <2>2, <4>1, FrontFacts DEF Agree
    <3>2. f = [i \in 1..n |-> f[i]] /\ s = [i \in 1..n |-> s[i]]
      BY <3>1, LenProperties
    <3> QED
      BY <2>1, <3>1, <3>2
  <2> SUFFICES ASSUME a \in DOMAIN fs, NEW r \in Above(a), r # a PROVE r \in DOMAIN fs /\ fs[r].kind = "dir"
    BY <2>1
  <2>4. r \in Above(s)
    <3>1. Above(a) = Above(Front(a)) \cup {a}
      BY ONLY <2>1, <2>2, AboveFront
    <3> QED
      BY ONLY <2>3, <3>1, r \in Above(a), r # a
  <2>5. s # << >>
    BY <2>4, FrontOfEmpty
  <2>6. Len(a) > 1
    BY <2>1, <2>5, EmptySeq
  <2>7. s \in DOMAIN fs /\ fs[s].kind = "dir"
    BY <2>3, <2>6 DEF IsFileSystem
  <2> QED
    BY <1>2, <2>4, <2>7
<1> HIDE DEF T
<1>3. \A p \in Seq(FileName) : p \in T
  BY <1>1, <1>2, SeqInduction
<1> QED
  BY <1>3 DEF T

-----------------------------------------------------------------------------
(* The account of what was chosen: what waits for its task, what is in the *)
(* archive, what is lost.                                                  *)

FilePath(i) == Path(files[i].fname)

Tasks == {FilePath(i) : i \in 1..Len(files)}

Packed == {PathOf(j) : j \in 1..Len(chs)}

(* The entries whose tasks have ended. *)
Done == IF stage \in {"unpack", "exit"} THEN (1..Len(chs)) \ ToSet(waiting) ELSE {}

(* The user has changed it. *)
Changed(p) == tree[p].kind \in {"file", "link"} /\ (p \in DOMAIN source => source[p] # tree[p])

(* Nothing is packed twice. *)
OneTaskEach == \A i, k \in 1..Len(files) : FilePath(i) = FilePath(k) => i = k

OneEntryEach == \A j, k \in 1..Len(chs) : PathOf(j) = PathOf(k) => j = k

TasksApart == \A p \in Tasks : p \notin Lost /\ p \notin Packed

(* Nothing is forgotten. *)
AllAccounted ==
  stage \notin {"scan", "refused"} => \A p \in Chosen : p \in Lost \/ p \in Tasks \/ p \in Packed

(* What is lost could not be packed, or is a device that was. *)
Explained(p) ==
  \/ tree[p].kind = "fifo"
  \/ Changed(p)
  \/ tree[p].kind = "chr" /\ \E j \in Done : PathOf(j) = p

LossesExplained ==
  \A p \in Lost : p \in Chosen /\ Explained(p) /\ (p \in Packed => tree[p].kind = "chr")

DevicesReported == \A j \in Done : tree[PathOf(j)].kind = "chr" => PathOf(j) \in Lost

NoneYet == stage \in {"scan", "refused"} => failed = {}

Account ==
  /\ OneTaskEach /\ OneEntryEach /\ TasksApart /\ AllAccounted
  /\ LossesExplained /\ DevicesReported /\ NoneYet

(* A task that ends is no task any more. *)
LEMMA TaskGone ==
  ASSUME OneTaskEach, files \in Seq(Stats), NEW i \in 1..Len(files), files' = RemoveAt(files, i)
  PROVE  OneTaskEach' /\ Tasks' = Tasks \ {FilePath(i)} /\ FilePath(i) \in Tasks
<1> PICK n \in Nat : n = Len(files)
  BY LenProperties
<1> PICK g : g = files'
  OBVIOUS
<1>1. Len(g) = n - 1 /\ \A k \in 1..(n - 1) : g[k] = IF k < i THEN files[k] ELSE files[k + 1]
  BY RemoveAtFacts
<1>2. ASSUME NEW k \in 1..(n - 1)
      PROVE  \E a \in 1..n : a = (IF k < i THEN k ELSE k + 1) /\ Path(g[k].fname) = FilePath(a)
  <2>1. CASE k < i
    <3>1. k \in 1..n /\ g[k] = files[k]
      BY <1>1, <2>1
    <3> QED
      BY <2>1, <3>1 DEF FilePath
  <2>2. CASE ~(k < i)
    <3>1. k + 1 \in 1..n /\ g[k] = files[k + 1]
      BY <1>1, <2>2
    <3> QED
      BY <2>2, <3>1 DEF FilePath
  <2> QED
    BY <2>1, <2>2
<1>3. \A k \in 1..(n - 1) : FilePath(k)' = Path(g[k].fname)
  BY DEF FilePath
<1>4. OneTaskEach'
  <2> SUFFICES ASSUME NEW k \in 1..(n - 1), NEW l \in 1..(n - 1), Path(g[k].fname) = Path(g[l].fname)
               PROVE  k = l
    BY <1>1, <1>3 DEF OneTaskEach
  <2> PICK a \in 1..n : a = (IF k < i THEN k ELSE k + 1) /\ Path(g[k].fname) = FilePath(a)
    BY <1>2
  <2> PICK b \in 1..n : b = (IF l < i THEN l ELSE l + 1) /\ Path(g[l].fname) = FilePath(b)
    BY <1>2
  <2>1. a = b
    BY DEF OneTaskEach
  <2> QED
    BY <2>1
<1>5. ASSUME NEW k \in 1..(n - 1) PROVE FilePath(k)' \in Tasks \ {FilePath(i)}
  <2> PICK a \in 1..n : a = (IF k < i THEN k ELSE k + 1) /\ Path(g[k].fname) = FilePath(a)
    BY <1>2
  <2>1. a # i
    OBVIOUS
  <2>2. FilePath(a) # FilePath(i)
    BY <2>1 DEF OneTaskEach
  <2> QED
    BY <1>3, <2>2 DEF Tasks
<1>6. ASSUME NEW a \in 1..n, FilePath(a) # FilePath(i) PROVE FilePath(a) \in Tasks'
  <2>0. a # i
    BY <1>6
  <2> PICK k \in 1..(n - 1) : a = IF k < i THEN k ELSE k + 1
    <3>1. CASE a < i
      <4>1. a \in 1..(n - 1)
        BY <3>1
      <4> QED
        BY <3>1, <4>1
    <3>2. CASE a > i
      <4>1. a - 1 \in 1..(n - 1) /\ ~(a - 1 < i) /\ a = a - 1 + 1
        BY <3>2
      <4> QED
        BY <4>1
    <3> QED
      BY <2>0, <3>1, <3>2
  <2>1. FilePath(k)' = FilePath(a)
    BY <1>2, <1>3
  <2> QED
    BY <1>1, <2>1 DEF Tasks
<1>7. Tasks' = {FilePath(k)' : k \in 1..(n - 1)}
  BY <1>1 DEF Tasks
<1>8. Tasks' = Tasks \ {FilePath(i)}
  <2>1. \A p : p \in Tasks' => p \in Tasks \ {FilePath(i)}
    BY <1>5, <1>7
  <2>2. \A p : p \in Tasks \ {FilePath(i)} => p \in Tasks'
    BY <1>6 DEF Tasks
  <2> QED
    BY <2>1, <2>2
<1> QED
  BY <1>4, <1>8 DEF Tasks

(* What cannot be packed was a fifo, or has changed. *)
LEMMA NotPacked ==
  ASSUME tree \in Trees, args \in Arguments, NEW fi \in Stats, ~CanPack(source, fi)
  PROVE  tree[Path(fi.fname)].kind = "fifo" \/ Changed(Path(fi.fname))
<1> PICK p : p = Path(fi.fname)
  OBVIOUS
<1> PICK n : n = tree[p]
  OBVIOUS
<1>1. StatOf(fi, n)
  BY StatFacts
<1>2. fi.kind = n.kind
  BY <1>1 DEF StatOf
<1>3. CASE fi.kind = "fifo"
  BY <1>2, <1>3
<1>4. CASE fi.kind \in {"file", "link"} /\ p \notin DOMAIN source
  BY <1>2, <1>4 DEF Changed
<1>5. CASE fi.kind = "link" /\ p \in DOMAIN source /\ ~(Len(source[p].body) <= fi.fsize)
  <2>1. fi.fsize = Len(n.body)
    BY <1>1, <1>2, <1>5 DEF StatOf
  <2>2. Len(n.body) \in Nat
    <3>1. n \in Node
      BY StatFacts
    <3> QED
      BY <3>1, NodeFields, LenProperties
  <2>3. source[p] # n
    BY <1>5, <2>1, <2>2
  <2> QED
    BY <1>2, <1>5, <2>3 DEF Changed
<1> QED
  BY <1>3, <1>4, <1>5 DEF CanPack

(* A change stays: an edit comes but once. *)
LEMMA ChangedStays ==
  ASSUME [Next]_vars, NEW p, p \in DOMAIN tree, Changed(p)
  PROVE  Changed(p)'
<1>0. tree' = tree
  BY GivensStay
<1>1. CASE \E q \in Editable : Edit(q)
  <2>1. source = tree
    BY <1>1 DEF Edit
  <2> QED
    BY <2>1 DEF Changed
<1>2. CASE ~\E q \in Editable : Edit(q)
  BY <1>0, <1>2, SourceStays DEF Changed
<1> QED
  BY <1>1, <1>2

Early(s) == s \in {"scan", "refused"}

(* A step that ends no task leaves the account as it is. *)
LEMMA AccountStays ==
  ASSUME BaseInv, Account, [Next]_vars, files' = files, chs' = chs, failed' = failed, Done' = Done,
         Early(stage') <=> Early(stage)
  PROVE  Account'
<1>1. tree' = tree /\ Chosen' = Chosen
  BY GivensStay, MakingsGrow
<1>2. /\ \A i : FilePath(i)' = FilePath(i)
      /\ \A j : PathOf(j)' = PathOf(j)
  BY DEF FilePath, PathOf
<1>3. Tasks' = Tasks /\ Packed' = Packed /\ Lost' = Lost
  BY <1>2 DEF Tasks, Packed, Lost
<1>4. OneTaskEach' /\ OneEntryEach' /\ TasksApart'
  BY <1>2, <1>3 DEF Account, OneTaskEach, OneEntryEach, TasksApart
<1>5. AllAccounted' /\ NoneYet'
  BY <1>1, <1>3 DEF Account, AllAccounted, NoneYet, Early
<1>6. ASSUME NEW p \in Lost PROVE Explained(p)'
  <2>1. p \in Chosen /\ Explained(p)
    BY DEF Account, LossesExplained
  <2>2. p \in DOMAIN tree
    BY <2>1 DEF Chosen
  <2>3. CASE tree[p].kind = "fifo"
    BY <1>1, <2>3 DEF Explained
  <2>4. CASE Changed(p)
    BY <2>2, <2>4, ChangedStays DEF Explained
  <2>5. CASE tree[p].kind = "chr" /\ \E j \in Done : PathOf(j) = p
    BY <1>1, <1>2, <2>5 DEF Explained
  <2> QED
    BY <2>1, <2>3, <2>4, <2>5 DEF Explained
<1>7. LossesExplained'
  BY <1>1, <1>3, <1>6 DEF Account, LossesExplained
<1>8. DevicesReported'
  BY <1>1, <1>2, <1>3 DEF Account, DevicesReported
<1> QED
  BY <1>4, <1>5, <1>7, <1>8 DEF Account

(* In the first state there is nothing to account for. *)
LEMMA AccountInit == Init => Account
<1> SUFFICES ASSUME Init PROVE Account
  OBVIOUS
<1>1. files = << >> /\ chs = << >> /\ failed = {} /\ stage = "scan"
  BY DEF Init
<1>2. Tasks = {} /\ Packed = {} /\ Lost = {} /\ Done = {}
  BY <1>1 DEF Tasks, Packed, Lost, Done
<1>3. OneTaskEach /\ OneEntryEach
  BY <1>1 DEF OneTaskEach, OneEntryEach
<1> QED
  BY <1>1, <1>2, <1>3 DEF Account, TasksApart, AllAccounted, LossesExplained, DevicesReported, NoneYet

(* The scan makes one task of each that was chosen. *)
LEMMA ScanAccount ==
  ASSUME BaseInv, PackInv, Account, [Next]_vars, Apart(args), Scan
  PROVE  Account'
<1>1. stage = "scan" /\ source = tree /\ stage' = "pack" /\ chs' = chs /\ failed' = failed
  BY DEF Scan, packVars, BaseInv
<1>2. tree' = tree /\ Chosen' = Chosen
  BY GivensStay, MakingsGrow
<1> PICK fs : fs = files'
  OBVIOUS
<1>3. fs \in LaunchOrders(StatsIn(expand_files(tree, args)))
  BY <1>1 DEF Scan, StatsIn
<1>4. /\ fs \in Seq(Stats)
      /\ \A j, k \in 1..Len(fs) : Path(fs[j].fname) = Path(fs[k].fname) => j = k
      /\ \A p \in Chosen : \E k \in 1..Len(fs) : Path(fs[k].fname) = p
  BY <1>3, ScanFacts DEF BaseInv
<1>5. chs = << >> /\ failed = {}
  BY <1>1 DEF PackInv, Account, NoneYet
<1>6. chs' = << >> /\ Len(chs') = 0 /\ failed' = {}
  BY <1>1, <1>5
<1>7. Packed' = {} /\ Lost' = {} /\ Done' = {}
  BY <1>1, <1>6 DEF Packed, Lost, Done
<1>8. OneTaskEach' /\ OneEntryEach'
  BY <1>4, <1>6 DEF OneTaskEach, OneEntryEach, FilePath
<1>9. AllAccounted'
  BY <1>2, <1>4 DEF AllAccounted, Tasks, FilePath
<1> QED
  BY <1>1, <1>7, <1>8, <1>9 DEF Account, TasksApart, LossesExplained, DevicesReported, NoneYet

(* A task ends: its file is in the archive, or lost. *)
LEMMA PackAccount ==
  ASSUME BaseInv, PackInv, Account, [Next]_vars, NEW i \in DOMAIN files, Pack(i)
  PROVE  Account'
<1>1. stage = "pack" /\ stage' = "pack" /\ files' = RemoveAt(files, i) /\ source' = source
  BY DEF Pack
<1>2. tree' = tree /\ Chosen' = Chosen
  BY GivensStay, MakingsGrow
<1>3. files \in Seq(Stats) /\ i \in 1..Len(files) /\ tree \in Trees /\ args \in Arguments
  BY LenProperties DEF PackInv, BaseInv
<1>4. files[i] \in Stats
  BY <1>3, ElementOfSeq
<1> PICK p : p = FilePath(i)
  OBVIOUS
<1>5. p \in Chosen
  BY <1>3, <1>4, StatFacts DEF FilePath
<1>6. OneTaskEach' /\ Tasks' = Tasks \ {p} /\ p \in Tasks
  BY <1>1, <1>3, TaskGone DEF Account
<1>7. p \notin Lost /\ p \notin Packed
  BY <1>6 DEF Account, TasksApart
<1>8. Done = {} /\ Done' = {}
  BY <1>1 DEF Done
<1>9. \A q : Changed(q)' = Changed(q)
  BY <1>1, <1>2 DEF Changed
<1>10. \A q : Explained(q) => Explained(q)'
  BY <1>2, <1>8, <1>9 DEF Explained
<1>11. CASE CanPack(source, files[i]) /\ (\E method \in Methods(files[i]) : Added(i, method)) /\ failed' = failed
  <2>1. /\ Len(chs') = Len(chs) + 1 /\ \A j \in 1..Len(chs) : chs'[j] = chs[j]
        /\ Path(chs'[Len(chs) + 1].fname) = p
    BY <1>1, <1>11, AddedLayout DEF FilePath
  <2> PICK n \in Nat : n = Len(chs)
    BY IsSeqFacts DEF PackInv
  <2>2. (\A j \in 1..n : PathOf(j)' = PathOf(j)) /\ PathOf(n + 1)' = p /\ Len(chs') = n + 1
    BY <2>1 DEF PathOf
  <2>3. Packed' = Packed \cup {p}
    <3>1. ASSUME NEW q \in Packed PROVE q \in Packed'
      <4>1. PICK j \in 1..n : q = PathOf(j)
        BY DEF Packed
      <4> QED
        BY <2>2, <4>1 DEF Packed
    <3>2. ASSUME NEW q \in Packed' PROVE q \in Packed \cup {p}
      <4>1. PICK j \in 1..(n + 1) : q = PathOf(j)'
        BY <2>2 DEF Packed
      <4>2. CASE j = n + 1
        BY <2>2, <4>1, <4>2
      <4>3. CASE j # n + 1
        <5>1. j \in 1..n
          BY <4>3
        <5> QED
          BY <2>2, <4>1, <5>1 DEF Packed
      <4> QED
        BY <4>2, <4>3
    <3>3. p \in Packed'
      BY <2>2 DEF Packed
    <3> QED
      BY <3>1, <3>2, <3>3
  <2>4. OneEntryEach'
    <3> SUFFICES ASSUME NEW j \in 1..(n + 1), NEW k \in 1..(n + 1), PathOf(j)' = PathOf(k)' PROVE j = k
      BY <2>2 DEF OneEntryEach
    <3>1. \A l \in 1..n : PathOf(l)' = PathOf(l) /\ PathOf(l) # p
      BY <1>7, <2>2 DEF Packed
    <3>2. CASE j \in 1..n /\ k \in 1..n
      BY <3>1, <3>2 DEF Account, OneEntryEach
    <3>3. CASE j = n + 1 /\ k = n + 1
      BY <3>3
    <3>4. CASE j = n + 1 /\ k \in 1..n
      BY <2>2, <3>1, <3>4
    <3>5. CASE k = n + 1 /\ j \in 1..n
      BY <2>2, <3>1, <3>5
    <3> QED
      BY <3>2, <3>3, <3>4, <3>5
  <2>5. Lost' = Lost
    BY <1>11 DEF Lost
  <2>6. TasksApart' /\ AllAccounted'
    BY <1>1, <1>2, <1>6, <2>3, <2>5 DEF Account, TasksApart, AllAccounted
  <2>7. LossesExplained'
    BY <1>2, <1>7, <1>10, <2>3, <2>5 DEF Account, LossesExplained
  <2> QED
    BY <1>1, <1>6, <1>8, <2>4, <2>6, <2>7 DEF Account, DevicesReported, NoneYet
<1>12. CASE ~CanPack(source, files[i]) /\ chs' = chs /\ failed' = failed \cup {files[i].fname}
  <2>1. /\ \A j : PathOf(j)' = PathOf(j)
        /\ Packed' = Packed
    BY <1>12 DEF PathOf, Packed
  <2>2. OneEntryEach'
    BY <1>12, <2>1 DEF Account, OneEntryEach
  <2>3. Lost' = Lost \cup {p}
    BY <1>12 DEF Lost, FilePath
  <2>4. Explained(p)
    BY <1>3, <1>4, <1>12, NotPacked DEF Explained, FilePath
  <2>5. TasksApart' /\ AllAccounted'
    BY <1>1, <1>2, <1>6, <2>1, <2>3 DEF Account, TasksApart, AllAccounted
  <2>6. LossesExplained'
    BY <1>2, <1>5, <1>7, <1>10, <2>1, <2>3, <2>4 DEF Account, LossesExplained
  <2> QED
    BY <1>1, <1>6, <1>8, <2>2, <2>5, <2>6 DEF Account, DevicesReported, NoneYet
<1> QED
  BY <1>11, <1>12, PackCases

-----------------------------------------------------------------------------
(* The account of what was unpacked to. *)

(* A directory that an entry needs, or the destination itself. *)
OnTheWayTo(q) == q \in Above(Path(prefix)) \/ \E j \in Done : q \in Above(Front(At(PathOf(j))))

Made(q) == \E j \in Done : q = At(PathOf(j)) /\ tree[PathOf(j)].kind # "chr"

TargetHas == \A q : q \in DOMAIN target <=> OnTheWayTo(q) \/ Made(q)

FilesAreEntries ==
  \A q \in DOMAIN target : target[q].kind # "dir" =>
    \E j \in Done : q = At(PathOf(j)) /\ tree[PathOf(j)].kind \notin {"dir", "chr"}

CameOut(p) == Kept(tree[p], target[At(p)]) /\ target[At(p)].body \in Bodies(p)

EntriesCameOut == \A j \in Done : tree[PathOf(j)].kind # "chr" => CameOut(PathOf(j))

TargetInv == stage \in {"unpack", "exit"} => TargetHas /\ FilesAreEntries /\ EntriesCameOut

(* Two of what was chosen, below the destination. *)
LEMMA AtCancels ==
  ASSUME BaseInv, NEW p \in Chosen, NEW q \in Chosen, At(p) = At(q)
  PROVE  p = q
<1> PICK w : w = Path(prefix)
  OBVIOUS
<1>1. w \in Seq(Name) /\ p \in Seq(Name) /\ q \in Seq(Name)
  BY PrefixFacts, ChosenFacts DEF BaseInv
<1>2. w \o p = w \o q
  BY DEF At
<1> QED
  BY <1>1, <1>2, ConcatCancels

(* What is on the way to something below the destination was on the way to it in the tree. *)
LEMMA AtAbove ==
  ASSUME BaseInv, NEW p \in Chosen, NEW q \in Chosen
  PROVE  /\ At(q) \notin Above(Path(prefix))
         /\ At(q) \in Above(At(p)) => q = p \/ (q \in Above(p) /\ tree[q].kind = "dir")
         /\ At(q) \in Above(Front(At(p))) => q # p /\ q \in Above(p) /\ tree[q].kind = "dir"
<1> PICK w : w = Path(prefix)
  OBVIOUS
<1>1. w \in Seq(Name) /\ p \in Seq(Name) /\ q \in Seq(Name) /\ q # << >> /\ p \in Seq(FileName) /\ p \in DOMAIN tree
  BY PrefixFacts, ChosenFacts DEF BaseInv
<1> PICK a, b : a = At(p) /\ b = At(q)
  OBVIOUS
<1>2. a = w \o p /\ b = w \o q
  BY DEF At
<1>3. b \notin Above(w) /\ (b \in Above(a) => q \in Above(p))
  BY <1>1, <1>2, ConcatAbove
<1>4. q \in Above(p) /\ q # p => tree[q].kind = "dir"
  BY <1>1, OnTheWay, TreeFacts DEF BaseInv
<1>5. a \in Seq(Name) /\ a # << >>
  BY AtFacts
<1>6. Above(a) = Above(Front(a)) \cup {a} /\ a \notin Above(Front(a))
  BY ONLY <1>5, AboveFront
<1>7. b \in Above(Front(a)) => q # p /\ b \in Above(a)
  BY <1>6
<1> QED
  BY <1>3, <1>4, <1>7

(* An entry is not in the way of another, whose task has not ended.        *)
LEMMA WayIsClear ==
  ASSUME BaseInv, ReadInv, OneEntryEach, TargetInv, stage = "unpack",
         NEW j \in 1..Len(chs), j \notin Done
  PROVE  /\ CanMkdir(target, At(PathOf(j))) /\ CanMkdir(target, Front(At(PathOf(j))))
         /\ tree[PathOf(j)].kind # "dir" => At(PathOf(j)) \notin DOMAIN target
<1> PICK p : p = PathOf(j)
  OBVIOUS
<1>1. p \in Chosen /\ \A k \in Done : PathOf(k) \in Chosen /\ PathOf(k) # p
  BY EntryFacts DEF Done, OneEntryEach
<1> PICK a : a = At(p)
  OBVIOUS
<1>2. a \in Seq(Name) /\ a # << >>
  BY <1>1, AtFacts
<1>3. Above(a) = Above(Front(a)) \cup {a}
  BY ONLY <1>2, AboveFront
<1>4. TargetHas /\ FilesAreEntries
  BY DEF TargetInv
<1>5. ASSUME NEW q \in Above(a), q \in DOMAIN target, target[q].kind # "dir"
      PROVE  FALSE
  <2>1. PICK k \in Done : q = At(PathOf(k)) /\ tree[PathOf(k)].kind \notin {"dir", "chr"}
    BY <1>4, <1>5 DEF FilesAreEntries
  <2> PICK r : r = PathOf(k)
    OBVIOUS
  <2>2. r \in Chosen /\ r # p
    BY <1>1
  <2>3. At(r) \in Above(At(p))
    BY <1>5, <2>1
  <2> QED
    BY <1>1, <2>1, <2>2, <2>3, AtAbove
<1>6. ASSUME tree[p].kind # "dir", a \in DOMAIN target
      PROVE  FALSE
  <2>1. OnTheWayTo(a) \/ Made(a)
    BY <1>4, <1>6 DEF TargetHas
  <2>2. CASE a \in Above(Path(prefix))
    BY <1>1, <2>2, AtAbove
  <2>3. ASSUME NEW k \in Done, a \in Above(Front(At(PathOf(k)))) PROVE FALSE
    <3>1. PathOf(k) \in Chosen
      BY <1>1
    <3> QED
      BY <1>1, <1>6, <2>3, <3>1, AtAbove
  <2>4. ASSUME NEW k \in Done, a = At(PathOf(k)) PROVE FALSE
    <3>1. PathOf(k) \in Chosen /\ PathOf(k) # p
      BY <1>1
    <3> QED
      BY <1>1, <2>4, <3>1, AtCancels
  <2> QED
    BY <2>1, <2>2, <2>3, <2>4 DEF OnTheWayTo, Made
<1> QED
  BY <1>3, <1>5, <1>6 DEF CanMkdir

(* So only a device cannot be made. *)
LEMMA OnlyDevicesFail ==
  ASSUME BaseInv, ReadInv, OneEntryEach, TargetInv, stage = "unpack",
         NEW j \in 1..Len(chs), j \notin Done, ReportsIt(j)
  PROVE  tree[PathOf(j)].kind = "chr"
<1> PICK p, e, a : p = PathOf(j) /\ e = entries[j] /\ a = At(p)
  OBVIOUS
<1>1. Tells(e.local, e.central, e.data) /\ e.central = chs[j]
  BY EntryFacts
<1>2. /\ e.central.type = tree[p].kind /\ tree[p].kind # "fifo" /\ tree[p] \in Node
      /\ Decode(e.central.compression_method, e.data) = e.local.crc32
  BY <1>1 DEF Tells, PathOf
<1>3. tree[p].kind \in {"file", "dir", "link", "chr", "fifo"}
  BY <1>2, NodeFields
<1>4. /\ CanMkdir(target, a) /\ CanMkdir(target, Front(a))
      /\ tree[p].kind # "dir" => a \notin DOMAIN target
  BY WayIsClear
<1>5. ~CanCreate(e, a)
  BY DEF ReportsIt
<1>6. CASE tree[p].kind = "dir"
  BY <1>2, <1>4, <1>5, <1>6 DEF CanCreate
<1>7. CASE tree[p].kind = "file"
  BY <1>2, <1>4, <1>5, <1>7 DEF CanCreate
<1>8. CASE tree[p].kind = "link"
  BY <1>2, <1>4, <1>5, <1>8 DEF CanCreate
<1> QED
  BY <1>2, <1>3, <1>6, <1>7, <1>8

(* A task that ends has an entry that is done. *)
LEMMA OneMoreDone ==
  ASSUME RecordInv, NEW i \in DOMAIN waiting, Unpack(i)
  PROVE  /\ waiting[i] \in 1..Len(chs) /\ waiting[i] \notin Done
         /\ Done' = Done \cup {waiting[i]}
<1>1. /\ stage = "unpack" /\ stage' = "unpack" /\ waiting' = RemoveAt(waiting, i) /\ chs' = chs
  BY DEF Unpack, packVars
<1>2. waiting \in Seq(1..Len(chs)) /\ Distinct(waiting)
  BY <1>1 DEF RecordInv, ReadInv
<1>3. i \in 1..Len(waiting)
  BY <1>2, LenProperties
<1>4. ToSet(waiting') = ToSet(waiting) \ {waiting[i]}
  BY <1>1, <1>2, <1>3, RemoveDistinct
<1>5. waiting[i] \in 1..Len(chs)
  BY <1>2, <1>3, ElementOfSeq
<1>6. waiting[i] \in ToSet(waiting)
  BY DEF ToSet
<1>7. Done = (1..Len(chs)) \ ToSet(waiting) /\ Done' = (1..Len(chs)) \ ToSet(waiting')
  BY <1>1 DEF Done
<1> QED
  BY <1>4, <1>5, <1>6, <1>7

(* The others keep what they have. *)
LEMMA CameOutStays ==
  ASSUME NEW p, NEW n, NEW m, NEW k, Kept(k, n), Stays(n, m)
  PROVE  Kept(k, m) /\ m.body = n.body
BY DEF Kept, Stays

(* An entry is made. *)
LEMMA MakesAccount ==
  ASSUME RecordInv, IsTarget(target), Account, TargetInv, [Next]_vars,
         NEW i \in DOMAIN waiting, Unpack(i), NEW j, j = waiting[i], MakesIt(j)
  PROVE  Account' /\ TargetInv'
<1>0. /\ BaseInv /\ PackInv /\ ReadInv /\ stage = "unpack" /\ stage' = "unpack" /\ prefix' = prefix
      /\ chs' = chs /\ files' = files /\ source' = source
  BY DEF Unpack, packVars, RecordInv
<1>1. tree' = tree /\ Chosen' = Chosen
  BY <1>0, GivensStay, MakingsGrow
<1>2. j \in 1..Len(chs) /\ j \notin Done /\ Done' = Done \cup {j}
  BY OneMoreDone
<1> PICK p, a, t, e : p = PathOf(j) /\ a = At(p) /\ t = target' /\ e = entries[j]
  OBVIOUS
<1>3. Tells(e.local, e.central, e.data) /\ e.central = chs[j] /\ p \in Chosen
  BY <1>0, <1>2, EntryFacts
<1>4. \A k \in Done : PathOf(k) \in Chosen /\ PathOf(k) # p
  BY <1>0, <1>2, EntryFacts DEF Done, Account, OneEntryEach
<1>5. Path(e.central.fname) = p
  BY <1>3 DEF PathOf
<1>6. /\ IsTarget(t) /\ DOMAIN t = DOMAIN target \cup Above(a)
      /\ \A q \in DOMAIN target : q # a => Stays(target[q], t[q])
      /\ \A q \in DOMAIN t \ DOMAIN target : q # a => t[q].kind = "dir"
      /\ tree[p].kind \in {"file", "dir", "link"}
      /\ Kept(tree[p], t[a])
      /\ t[a].body = IF tree[p].kind = "dir" THEN << >> ELSE e.local.crc32
      /\ tree[p].kind # "dir" => a \notin DOMAIN target
  BY <1>5 DEF MakesIt, Unpacked
<1>7. /\ \A k : PathOf(k)' = PathOf(k)
      /\ \A q : At(q)' = At(q)
      /\ \A q : Bodies(q)' = Bodies(q)
      /\ Path(prefix') = Path(prefix)
  BY <1>0, <1>1 DEF PathOf, At, Bodies
<1>8. a \in Seq(Name) /\ a # << >> /\ Above(a) = Above(Front(a)) \cup {a}
  <2>1. a \in Seq(Name) /\ a # << >>
    BY <1>0, <1>3, AtFacts
  <2> QED
    BY <2>1, AboveFront
<1>9. TargetHas /\ FilesAreEntries /\ EntriesCameOut
  BY <1>0 DEF TargetInv
<1>10. /\ \A q : OnTheWayTo(q)' <=> OnTheWayTo(q) \/ q \in Above(Front(a))
       /\ \A q : Made(q)' <=> Made(q) \/ q = a
  BY <1>1, <1>2, <1>6, <1>7 DEF OnTheWayTo, Made
<1>11. TargetHas'
  <2>1. \A q : q \in DOMAIN t <=> q \in DOMAIN target \/ q \in Above(Front(a)) \/ q = a
    BY <1>6, <1>8
  <2> QED
    BY <1>9, <1>10, <2>1 DEF TargetHas
<1>12. FilesAreEntries'
  <2> SUFFICES ASSUME NEW q \in DOMAIN t, t[q].kind # "dir"
               PROVE  \E k \in Done' : q = At(PathOf(k)) /\ tree[PathOf(k)].kind \notin {"dir", "chr"}
    BY <1>1, <1>7 DEF FilesAreEntries
  <2>1. CASE q = a
    BY <1>2, <1>6, <2>1 DEF Kept
  <2>2. CASE q # a
    <3>1. q \in DOMAIN target /\ target[q].kind # "dir"
      BY <1>6, <2>2 DEF Stays
    <3> QED
      BY <1>2, <1>9, <3>1 DEF FilesAreEntries
  <2> QED
    BY <2>1, <2>2
<1>13. EntriesCameOut'
  <2> SUFFICES ASSUME NEW k \in Done', tree[PathOf(k)].kind # "chr"
               PROVE  Kept(tree[PathOf(k)], t[At(PathOf(k))]) /\ t[At(PathOf(k))].body \in Bodies(PathOf(k))
    BY <1>1, <1>7 DEF EntriesCameOut, CameOut
  <2>1. CASE k = j
    <3>1. tree[p].kind = "dir" => tree[p].body = << >>
      BY <1>0, <1>3, ChosenFacts, TreeFacts DEF BaseInv, IsFileSystem
    <3>2. tree[p].kind \in {"file", "link"} => e.local.crc32 \in Bodies(p)
      BY <1>3, <1>5 DEF Tells
    <3>3. t[a].body \in Bodies(p)
      BY <1>6, <3>1, <3>2 DEF Bodies
    <3> QED
      BY <1>6, <2>1, <3>3
  <2>2. CASE k # j
    <3>1. k \in Done
      BY <1>2, <2>2
    <3> PICK r : r = PathOf(k)
      OBVIOUS
    <3>2. r \in Chosen /\ r # p
      BY <1>4, <3>1
    <3>3. At(r) # a
      BY <1>0, <1>3, <3>2, AtCancels
    <3>4. At(r) \in DOMAIN target
      BY <1>9, <3>1 DEF TargetHas, Made
    <3>5. Kept(tree[r], target[At(r)]) /\ target[At(r)].body \in Bodies(r)
      BY <1>9, <3>1 DEF EntriesCameOut, CameOut
    <3>6. Stays(target[At(r)], t[At(r)])
      BY <1>6, <3>3, <3>4
    <3> QED
      BY <3>5, <3>6, CameOutStays
  <2> QED
    BY <2>1, <2>2
<1>14. TargetInv'
  BY <1>11, <1>12, <1>13 DEF TargetInv
<1>15. failed' = failed /\ Lost' = Lost
  BY DEF MakesIt, Lost
<1>16. (\A k : FilePath(k)' = FilePath(k)) /\ Tasks' = Tasks /\ Packed' = Packed
  BY <1>0, <1>7 DEF FilePath, Tasks, Packed
<1>17. OneTaskEach' /\ OneEntryEach' /\ TasksApart' /\ AllAccounted' /\ NoneYet'
  BY <1>0, <1>1, <1>7, <1>15, <1>16
  DEF Account, OneTaskEach, OneEntryEach, TasksApart, AllAccounted, NoneYet
<1>18. LossesExplained'
  <2>1. \A q : Changed(q)' = Changed(q)
    BY <1>0, <1>1 DEF Changed
  <2>2. \A q : Explained(q) => Explained(q)'
    BY <1>1, <1>2, <1>7, <2>1 DEF Explained
  <2> QED
    BY <1>1, <1>15, <1>16, <2>2 DEF Account, LossesExplained
<1>19. DevicesReported'
  BY <1>1, <1>2, <1>6, <1>7, <1>15 DEF Account, DevicesReported
<1> QED
  BY <1>14, <1>17, <1>18, <1>19 DEF Account

(* A device is reported. *)
LEMMA ReportsAccount ==
  ASSUME RecordInv, IsTarget(target), Account, TargetInv, [Next]_vars,
         NEW i \in DOMAIN waiting, Unpack(i), NEW j, j = waiting[i], ReportsIt(j)
  PROVE  Account' /\ TargetInv'
<1>0. /\ BaseInv /\ PackInv /\ ReadInv /\ stage = "unpack" /\ stage' = "unpack" /\ prefix' = prefix
      /\ chs' = chs /\ files' = files /\ source' = source
  BY DEF Unpack, packVars, RecordInv
<1>1. tree' = tree /\ Chosen' = Chosen
  BY <1>0, GivensStay, MakingsGrow
<1>2. j \in 1..Len(chs) /\ j \notin Done /\ Done' = Done \cup {j}
  BY OneMoreDone
<1> PICK p, a, t : p = PathOf(j) /\ a = At(p) /\ t = target'
  OBVIOUS
<1>3. p \in Chosen /\ \A k \in Done : PathOf(k) \in Chosen
  BY <1>0, <1>2, EntryFacts DEF Done
<1>4. tree[p].kind = "chr"
  BY <1>0, <1>2, OnlyDevicesFail DEF Account
<1>5. CanMkdir(target, Front(a))
  BY <1>0, <1>2, WayIsClear DEF Account
<1>6. Grown(target, Above(Front(a)), t) /\ \A q \in Above(Front(a)) : t[q].kind = "dir"
  BY <1>0, <1>3, <1>5, ReportFacts
<1>7. /\ \A k : PathOf(k)' = PathOf(k)
      /\ \A q : At(q)' = At(q)
      /\ \A q : Bodies(q)' = Bodies(q)
      /\ Path(prefix') = Path(prefix)
  BY <1>0, <1>1 DEF PathOf, At, Bodies
<1>8. /\ DOMAIN t = DOMAIN target \cup Above(Front(a))
      /\ \A q \in DOMAIN target : Stays(target[q], t[q])
  BY <1>6 DEF Grown
<1>9. TargetHas /\ FilesAreEntries /\ EntriesCameOut
  BY <1>0 DEF TargetInv
<1>10. /\ \A q : OnTheWayTo(q)' <=> OnTheWayTo(q) \/ q \in Above(Front(a))
       /\ \A q : Made(q)' <=> Made(q)
  BY <1>1, <1>2, <1>4, <1>7 DEF OnTheWayTo, Made
<1>11. TargetHas'
  BY <1>8, <1>9, <1>10 DEF TargetHas
<1>12. FilesAreEntries'
  <2> SUFFICES ASSUME NEW q \in DOMAIN t, t[q].kind # "dir"
               PROVE  \E k \in Done' : q = At(PathOf(k)) /\ tree[PathOf(k)].kind \notin {"dir", "chr"}
    BY <1>1, <1>7 DEF FilesAreEntries
  <2>1. q \in DOMAIN target /\ target[q].kind # "dir"
    BY <1>6, <1>8 DEF Stays
  <2> QED
    BY <1>2, <1>9, <2>1 DEF FilesAreEntries
<1>13. EntriesCameOut'
  <2> SUFFICES ASSUME NEW k \in Done', tree[PathOf(k)].kind # "chr"
               PROVE  Kept(tree[PathOf(k)], t[At(PathOf(k))]) /\ t[At(PathOf(k))].body \in Bodies(PathOf(k))
    BY <1>1, <1>7 DEF EntriesCameOut, CameOut
  <2>1. k \in Done
    BY <1>2, <1>4
  <2> PICK r : r = PathOf(k)
    OBVIOUS
  <2>2. At(r) \in DOMAIN target
    BY <1>9, <2>1 DEF TargetHas, Made
  <2>3. Kept(tree[r], target[At(r)]) /\ target[At(r)].body \in Bodies(r)
    BY <1>9, <2>1 DEF EntriesCameOut, CameOut
  <2>4. Stays(target[At(r)], t[At(r)])
    BY <1>8, <2>2
  <2> QED
    BY <2>3, <2>4, CameOutStays
<1>14. TargetInv'
  BY <1>11, <1>12, <1>13 DEF TargetInv
<1>15. Lost' = Lost \cup {p}
  BY DEF ReportsIt, Lost, PathOf
<1>16. (\A k : FilePath(k)' = FilePath(k)) /\ Tasks' = Tasks /\ Packed' = Packed
  BY <1>0, <1>7 DEF FilePath, Tasks, Packed
<1>17. Tasks = {}
  <2>1. files = << >> /\ Len(<< >>) = 0
    BY <1>0 DEF PackInv
  <2> QED
    BY <2>1 DEF Tasks
<1>18. OneTaskEach' /\ OneEntryEach' /\ TasksApart' /\ AllAccounted' /\ NoneYet'
  BY <1>0, <1>1, <1>7, <1>15, <1>16, <1>17
  DEF Account, OneTaskEach, OneEntryEach, TasksApart, AllAccounted, NoneYet
<1>19. LossesExplained'
  <2>1. \A q : Changed(q)' = Changed(q)
    BY <1>0, <1>1 DEF Changed
  <2>2. \A q : Explained(q) => Explained(q)'
    BY <1>1, <1>2, <1>7, <2>1 DEF Explained
  <2>3. Explained(p)'
    BY <1>1, <1>2, <1>4, <1>7 DEF Explained
  <2> QED
    BY <1>1, <1>3, <1>4, <1>15, <1>16, <2>2, <2>3 DEF Account, LossesExplained
<1>20. DevicesReported'
  BY <1>1, <1>2, <1>7, <1>15 DEF Account, DevicesReported
<1> QED
  BY <1>14, <1>18, <1>19, <1>20 DEF Account

(* The steps that are no scan, end no task and start no unpacking. *)
Quiet ==
  ~Scan /\ (~\E i \in DOMAIN files : Pack(i)) /\ (~\E i \in DOMAIN waiting : Unpack(i))
  /\ ~(Parunzip \/ \E folder \in Destinations : UnpackTo(folder))

(* They leave the tasks, the entries and the reports. *)
LEMMA QuietStays ==
  ASSUME [Next]_vars, Quiet
  PROVE  /\ files' = files /\ chs' = chs /\ failed' = failed /\ (Early(stage') <=> Early(stage))
         /\ stage' \in {"unpack", "exit"} <=> stage \in {"unpack", "exit"}
         /\ stage \in {"unpack", "exit"} => source' = source
<1>1. CASE UNCHANGED vars \/ Exited
  BY <1>1 DEF vars, givens, packVars, Exited
<1>2. CASE \E p \in Editable : Edit(p)
  BY <1>2 DEF Edit, packVars
<1>3. CASE ScanFails
  BY <1>3 DEF ScanFails, packVars, givens, Early
<1>4. CASE Seal
  BY <1>4 DEF Seal, givens, Early
<1>5. CASE \E i \in DOMAIN files : Abort(i)
  BY <1>5 DEF Abort, packVars, givens, Early
<1>6. CASE OpenFails \/ OpenFile \/ (\E f \in Folders : ListFolder(f)) \/ Finish
  BY <1>6 DEF OpenFails, OpenFile, ListFolder, Finish, packVars, givens, Early
<1> QED
  BY <1>1, <1>2, <1>3, <1>4, <1>5, <1>6 DEF Next, Quiet

(* So they leave the accounts. *)
LEMMA QuietAccount ==
  ASSUME RecordInv, Account, TargetInv, [Next]_vars, Quiet
  PROVE  Account' /\ TargetInv'
<1>0. BaseInv
  BY DEF RecordInv
<1>1. /\ files' = files /\ chs' = chs /\ failed' = failed /\ (Early(stage') <=> Early(stage))
      /\ stage' \in {"unpack", "exit"} <=> stage \in {"unpack", "exit"}
      /\ stage \in {"unpack", "exit"} => source' = source
  BY QuietStays
<1>2. target' = target /\ prefix' = prefix /\ waiting' = waiting
  BY TargetStays DEF Quiet
<1>3. Done' = Done
  BY <1>1, <1>2 DEF Done
<1>4. Account'
  BY <1>0, <1>1, <1>3, AccountStays
<1>5. tree' = tree
  BY GivensStay
<1>6. CASE stage \in {"unpack", "exit"}
  <2>1. /\ \A k : PathOf(k)' = PathOf(k)
        /\ \A q : At(q)' = At(q)
        /\ \A q : Bodies(q)' = Bodies(q)
        /\ Path(prefix') = Path(prefix)
    BY <1>1, <1>2, <1>5, <1>6 DEF PathOf, At, Bodies
  <2>2. TargetHas /\ FilesAreEntries /\ EntriesCameOut
    BY <1>6 DEF TargetInv
  <2>3. (\A q : OnTheWayTo(q)' <=> OnTheWayTo(q)) /\ (\A q : Made(q)' <=> Made(q))
    BY <1>3, <1>5, <2>1 DEF OnTheWayTo, Made
  <2>4. TargetHas'
    BY <1>2, <2>2, <2>3 DEF TargetHas
  <2>5. FilesAreEntries'
    BY <1>2, <1>3, <1>5, <2>1, <2>2 DEF FilesAreEntries
  <2>6. EntriesCameOut'
    BY <1>2, <1>3, <1>5, <2>1, <2>2 DEF EntriesCameOut, CameOut
  <2> QED
    BY <1>4, <2>4, <2>5, <2>6 DEF TargetInv
<1>7. CASE stage \notin {"unpack", "exit"}
  BY <1>1, <1>4, <1>7 DEF TargetInv
<1> QED
  BY <1>6, <1>7

(* Unpacking starts with no task done, and the destination. *)
LEMMA StartAccount ==
  ASSUME RecordInv, RecordInv', Account, [Next]_vars,
         Parunzip \/ \E folder \in Destinations : UnpackTo(folder)
  PROVE  Account' /\ TargetInv'
<1>0. BaseInv
  BY DEF RecordInv
<1>1. /\ stage \in {"open", "list"} /\ stage' = "unpack" /\ failed' = failed
      /\ files' = files /\ chs' = chs
      /\ waiting' = [i \in DOMAIN entries' |-> i]
      /\ DOMAIN target' = Above(Path(prefix'))
      /\ \A q \in DOMAIN target' : target'[q].kind = "dir"
  BY <1>0, StartFacts
<1>2. DOMAIN entries' = 1..Len(chs)
  BY <1>1 DEF RecordInv, ReadInv
<1>3. ToSet(waiting') = 1..Len(chs)
  BY <1>1, <1>2 DEF ToSet
<1>4. Done = {} /\ Done' = {}
  BY <1>1, <1>3 DEF Done
<1>5. Account'
  BY <1>0, <1>1, <1>4, AccountStays DEF Early
<1>6. \A q : (OnTheWayTo(q)' <=> q \in Above(Path(prefix'))) /\ ~Made(q)'
  BY <1>4 DEF OnTheWayTo, Made
<1>7. TargetHas'
  BY <1>1, <1>6 DEF TargetHas
<1>8. FilesAreEntries' /\ EntriesCameOut'
  BY <1>1, <1>4 DEF FilesAreEntries, EntriesCameOut
<1> QED
  BY <1>5, <1>7, <1>8 DEF TargetInv

(* What is known of the trees, when no argument is given twice, or below   *)
(* another.                                                                *)
TripInv == Apart(args) => Account /\ TargetInv

(* Every step keeps the accounts. *)
LEMMA TripNext ==
  ASSUME RecordInv, RecordInv', IsTarget(target), TripInv, [Next]_vars
  PROVE  TripInv'
<1> SUFFICES ASSUME Apart(args) PROVE Account' /\ TargetInv'
  BY GivensStay DEF TripInv
<1>0. Account /\ TargetInv /\ BaseInv /\ PackInv
  BY DEF TripInv, RecordInv
<1>1. CASE Scan
  <2>1. Account'
    BY <1>0, <1>1, ScanAccount
  <2> QED
    BY <1>1, <2>1 DEF Scan, TargetInv
<1>2. CASE \E i \in DOMAIN files : Pack(i)
  <2> PICK i \in DOMAIN files : Pack(i)
    BY <1>2
  <2>1. Account'
    BY <1>0, PackAccount
  <2> QED
    BY <2>1 DEF Pack, TargetInv
<1>3. CASE \E i \in DOMAIN waiting : Unpack(i)
  <2> PICK i \in DOMAIN waiting : Unpack(i)
    BY <1>3
  <2> PICK j : j = waiting[i]
    OBVIOUS
  <2>1. MakesIt(j) \/ ReportsIt(j)
    BY UnpackCases DEF RecordInv
  <2> QED
    BY <1>0, <2>1, MakesAccount, ReportsAccount
<1>4. CASE Parunzip \/ \E folder \in Destinations : UnpackTo(folder)
  BY <1>0, <1>4, StartAccount
<1>5. CASE Quiet
  BY <1>0, <1>5, QuietAccount
<1> QED
  BY <1>1, <1>2, <1>3, <1>4, <1>5 DEF Quiet

(* They are an invariant. *)
LEMMA TripInvariant == Spec => [](RecordInv /\ IsTarget(target) /\ TripInv)
<1>1. Init => TripInv
  BY AccountInit DEF Init, TargetInv, TripInv
<1>2. RecordInv /\ IsTarget(target) /\ RecordInv' /\ TripInv /\ [Next]_vars => TripInv'
  BY TripNext
<1> QED
  BY <1>1, <1>2, TargetsInvariant, PTL DEF Spec

-----------------------------------------------------------------------------
(* At the end. *)

LEMMA AtTheEnd ==
  ASSUME RecordInv, Account, stage = "exit"
  PROVE  /\ BaseInv /\ Done = 1..Len(chs)
         /\ \A j \in Done : PathOf(j) \in Chosen /\ tree[PathOf(j)].kind \in {"file", "dir", "link", "chr"}
         /\ \A p \in Chosen : p \in Lost \/ \E j \in Done : PathOf(j) = p
         /\ \A p \in Lost : /\ p \in Chosen
                            /\ tree[p].kind = "fifo" \/ Changed(p) \/ tree[p].kind = "chr"
                            /\ (\E j \in Done : PathOf(j) = p) => tree[p].kind = "chr"
         /\ \A j \in Done : tree[PathOf(j)].kind = "chr" => PathOf(j) \in Lost
<1>0. BaseInv /\ ReadInv /\ PackInv
  BY DEF RecordInv
<1>1. waiting = << >> /\ files = << >> /\ DOMAIN << >> = {} /\ Len(<< >>) = 0
  BY <1>0 DEF ReadInv, PackInv
<1>2. ToSet(waiting) = {} /\ Tasks = {}
  BY <1>1 DEF ToSet, Tasks
<1>3. Done = 1..Len(chs)
  BY <1>2 DEF Done
<1>4. ASSUME NEW j \in Done
      PROVE  PathOf(j) \in Chosen /\ tree[PathOf(j)].kind \in {"file", "dir", "link", "chr"}
  <2>1. Tells(entries[j].local, entries[j].central, entries[j].data) /\ entries[j].central = chs[j]
        /\ PathOf(j) \in Chosen
    BY <1>0, <1>3, <1>4, EntryFacts
  <2>2. tree[PathOf(j)].kind # "fifo" /\ tree[PathOf(j)] \in Node
    BY <2>1 DEF Tells, PathOf
  <2> QED
    BY <2>1, <2>2, NodeFields
<1>5. \A p \in Chosen : p \in Lost \/ p \in Packed
  BY <1>2 DEF Account, AllAccounted
<1>6. \A p : p \in Packed <=> \E j \in Done : PathOf(j) = p
  BY <1>3 DEF Packed
<1> QED
  BY <1>0, <1>3, <1>4, <1>5, <1>6 DEF Account, LossesExplained, DevicesReported, Explained

(* Every file, directory and link comes out of the archive with its        *)
(* contents, its permissions, its owner and its times, whatever the order  *)
(* in which the tasks of parzip and parunzip end; only a file that was     *)
(* changed meanwhile may be reported lost instead.                         *)
THEOREM RoundTripSurvives == Spec => [](Apart(args) => TreeSurvives)
<1>1. RecordInv /\ TripInv => (Apart(args) => TreeSurvives)
  <2> SUFFICES ASSUME RecordInv, Account, TargetInv, stage = "exit",
                      NEW p \in ChosenOf({"file", "dir", "link"})
               PROVE  IF p \in Lost THEN p \notin DOMAIN source \/ source[p] # tree[p]
                      ELSE /\ At(p) \in DOMAIN target
                           /\ Kept(tree[p], target[At(p)])
                           /\ target[At(p)].body \in Bodies(p)
    BY DEF TripInv, TreeSurvives
  <2>1. p \in Chosen /\ tree[p].kind \in {"file", "dir", "link"}
    BY DEF ChosenOf
  <2>2. CASE p \in Lost
    <3>1. Changed(p)
      BY <2>1, <2>2, AtTheEnd
    <3> QED
      BY <2>2, <3>1 DEF Changed
  <2>3. CASE p \notin Lost
    <3>1. PICK j \in Done : PathOf(j) = p
      BY <2>1, <2>3, AtTheEnd
    <3>2. TargetHas /\ EntriesCameOut
      BY DEF TargetInv
    <3>3. At(p) \in DOMAIN target
      BY <2>1, <3>1, <3>2 DEF TargetHas, Made
    <3> QED
      BY <2>1, <2>3, <3>1, <3>2, <3>3 DEF EntriesCameOut, CameOut
  <2> QED
    BY <2>2, <2>3
<1> QED
  BY <1>1, TripInvariant, PTL

(* Nothing is made but what was chosen, and the directories on the way to  *)
(* what could be packed.                                                   *)
THEOREM RoundTripAddsNothing == Spec => [](Apart(args) => NothingElse)
<1>1. RecordInv /\ TripInv => (Apart(args) => NothingElse)
  <2> SUFFICES ASSUME RecordInv, Account, TargetInv, stage = "exit" PROVE NothingElse
    BY DEF TripInv, NothingElse
  <2> DEFINE came == ChosenOf({"file", "dir", "link"}) \ Lost
             packed == came \cup ChosenOf({"chr"})
             all == Above(Path(prefix)) \cup {At(p) : p \in came} \cup UNION {Above(Front(At(p))) : p \in packed}
  <2>1. \A j \in Done : /\ PathOf(j) \in packed
                        /\ tree[PathOf(j)].kind # "chr" => PathOf(j) \in came
    BY AtTheEnd DEF ChosenOf
  <2>2. \A p \in came : tree[p].kind # "chr" /\ \E j \in Done : PathOf(j) = p
    BY AtTheEnd DEF ChosenOf
  <2>3. \A p \in packed : \E j \in Done : PathOf(j) = p
    <3>1. ASSUME NEW p \in ChosenOf({"chr"}) PROVE \E j \in Done : PathOf(j) = p
      <4>1. p \in Chosen /\ tree[p].kind = "chr"
        BY DEF ChosenOf
      <4>2. CASE p \in Lost
        <5>1. Explained(p) /\ ~Changed(p)
          BY <4>1, <4>2 DEF Account, LossesExplained, Changed
        <5> QED
          BY <4>1, <5>1 DEF Explained
      <4> QED
        BY <4>1, <4>2, AtTheEnd
    <3> QED
      BY <2>2, <3>1
  <2> HIDE DEF came, packed
  <2>4. \A q : OnTheWayTo(q) <=> q \in Above(Path(prefix)) \/ q \in UNION {Above(Front(At(p))) : p \in packed}
    BY <2>1, <2>3 DEF OnTheWayTo
  <2>5. \A q : Made(q) <=> q \in {At(p) : p \in came}
    BY <2>1, <2>2 DEF Made
  <2>6. TargetHas
    BY DEF TargetInv
  <2>7. \A q : q \in DOMAIN target <=> q \in all
    BY <2>4, <2>5, <2>6 DEF TargetHas
  <2>8. DOMAIN target = all
    BY <2>7
  <2> QED
    BY <2>8 DEF NothingElse, came, packed
<1> QED
  BY <1>1, TripInvariant, PTL

(* What parzip and parunzip report as failed is what does not come out.    *)
THEOREM RoundTripReportsLosses == Spec => [](Apart(args) => LossIsReported)
<1>1. RecordInv /\ TripInv => (Apart(args) => LossIsReported)
  <2> SUFFICES ASSUME RecordInv, Account, TargetInv, stage = "exit"
               PROVE  Lost = {p \in Chosen : At(p) \notin DOMAIN target}
    BY DEF TripInv, LossIsReported
  <2>0. TargetHas /\ BaseInv
    BY AtTheEnd DEF TargetInv
  <2>1. ASSUME NEW p \in Chosen, At(p) \notin DOMAIN target PROVE p \in Lost
    <3>1. ~\E j \in Done : PathOf(j) = p /\ tree[p].kind # "chr"
      BY <2>0, <2>1 DEF TargetHas, Made
    <3> QED
      BY <3>1, AtTheEnd
  <2>2. ASSUME NEW p \in Lost PROVE p \in Chosen /\ At(p) \notin DOMAIN target
    <3>1. p \in Chosen
      BY AtTheEnd
    <3>2. tree[p].kind # "dir"
      BY AtTheEnd DEF Changed
    <3>3. ~OnTheWayTo(At(p))
      <4>1. At(p) \notin Above(Path(prefix))
        BY <2>0, <3>1, AtAbove
      <4>2. ASSUME NEW j \in Done, At(p) \in Above(Front(At(PathOf(j)))) PROVE FALSE
        <5>1. PathOf(j) \in Chosen
          BY AtTheEnd
        <5> QED
          BY <2>0, <3>1, <3>2, <4>2, <5>1, AtAbove
      <4> QED
        BY <4>1, <4>2 DEF OnTheWayTo
    <3>4. ~Made(At(p))
      <4> SUFFICES ASSUME NEW j \in Done, At(p) = At(PathOf(j)), tree[PathOf(j)].kind # "chr" PROVE FALSE
        BY DEF Made
      <4>1. PathOf(j) \in Chosen
        BY AtTheEnd
      <4>2. PathOf(j) = p
        BY <2>0, <3>1, <4>1, AtCancels
      <4> QED
        BY <4>2, AtTheEnd
    <3> QED
      BY <2>0, <3>1, <3>3, <3>4 DEF TargetHas
  <2> QED
    BY <2>1, <2>2
<1> QED
  BY <1>1, TripInvariant, PTL

-----------------------------------------------------------------------------
(* The listing of the GTK program. *)

(* The folder f is listed as order_entries may leave it. *)
ListedAs(f) ==
  /\ listing[f].dirs \in SortOutcomes(FoldersIn(f))
  /\ \E names \in SortOutcomes(FileNamesIn(f)) :
       listing[f].files = [k \in DOMAIN names |-> Row(f, names[k])]

ListInv ==
  IF stage \in {"list", "unpack", "exit"} THEN \A f \in DOMAIN listing : ListedAs(f)
  ELSE listing = << >>

(* What is listed of a folder is about the entries alone. *)
LEMMA FolderStays ==
  ASSUME entries' = entries
  PROVE  \A f : /\ FoldersIn(f)' = FoldersIn(f) /\ FileNamesIn(f)' = FileNamesIn(f)
                /\ \A name : Row(f, name)' = Row(f, name)
<1> SUFFICES ASSUME NEW f, NEW name
             PROVE  /\ FoldersIn(f)' = FoldersIn(f) /\ FileNamesIn(f)' = FileNamesIn(f)
                    /\ Row(f, name)' = Row(f, name)
  OBVIOUS
<1>1. \A i : Parts(i)' = Parts(i)
  BY DEF Parts
<1>2. FilesIn(f)' = FilesIn(f)
  BY <1>1 DEF FilesIn
<1>3. Folders' = Folders
  BY <1>1 DEF Folders
<1> QED
  BY <1>1, <1>2, <1>3 DEF FoldersIn, FileNamesIn, Row

(* Nor does a folder change that is not being listed. *)
LEMMA ListedStays ==
  ASSUME NEW f, entries' = entries, listing'[f] = listing[f], ListedAs(f)
  PROVE  ListedAs(f)'
BY FolderStays DEF ListedAs

(* Every step keeps it so. *)
LEMMA ListNext ==
  ASSUME ListInv, [Next]_vars
  PROVE  ListInv'
<1> DEFINE Shown(s) == s \in {"list", "unpack", "exit"}
<1>1. ASSUME entries' = entries, listing' = listing, Shown(stage) <=> Shown(stage') PROVE ListInv'
  BY <1>1, ListedStays DEF ListInv
<1>2. ASSUME listing = << >>, listing' = << >> PROVE ListInv'
  BY <1>2 DEF ListInv
<1>3. CASE UNCHANGED vars \/ Exited
  BY <1>1, <1>3 DEF vars, readVars, Exited
<1>4. CASE \E p \in Editable : Edit(p)
  BY <1>1, <1>4 DEF Edit, readVars
<1>5. CASE ScanFails \/ Scan \/ Seal \/ OpenFails
  BY <1>1, <1>5 DEF ScanFails, Scan, Seal, OpenFails, readVars
<1>6. CASE \E i \in DOMAIN files : Pack(i) \/ Abort(i)
  BY <1>1, <1>6 DEF Pack, Abort, readVars
<1>7. CASE OpenFile \/ Parunzip
  BY <1>2, <1>7 DEF OpenFile, Parunzip, unzip, ListInv
<1>8. CASE \E folder \in Destinations : UnpackTo(folder)
  BY <1>1, <1>8 DEF UnpackTo, unzip, Listed
<1>9. CASE (\E i \in DOMAIN waiting : Unpack(i)) \/ Finish
  BY <1>1, <1>9 DEF Unpack, Finish, readVars
<1>10. CASE stage = "list" /\ \E f \in Folders : ListFolder(f)
  <2> PICK f \in Folders : ListFolder(f)
    BY <1>10
  <2> PICK dirs \in SortOutcomes(FoldersIn(f)), names \in SortOutcomes(FileNamesIn(f)) :
        LET rows == [k \in DOMAIN names |-> Row(f, names[k])]
        IN  listing' = [g \in DOMAIN listing \cup {f} |->
                          IF g = f THEN [dirs |-> dirs, files |-> rows] ELSE listing[g]]
    BY DEF ListFolder
  <2>1. entries' = entries /\ stage' = "list" /\ stage = "list"
    BY <1>10 DEF ListFolder
  <2> PICK rows : rows = [k \in DOMAIN names |-> Row(f, names[k])]
    OBVIOUS
  <2>2. DOMAIN listing' = DOMAIN listing \cup {f} /\ listing'[f] = [dirs |-> dirs, files |-> rows]
    OBVIOUS
  <2>3. ListedAs(f)'
    <3>1. FoldersIn(f)' = FoldersIn(f) /\ FileNamesIn(f)' = FileNamesIn(f) /\ \A n : Row(f, n)' = Row(f, n)
      BY <2>1, FolderStays
    <3>2. dirs \in SortOutcomes(FoldersIn(f)') /\ names \in SortOutcomes(FileNamesIn(f)')
      BY <3>1
    <3>3. rows = [k \in DOMAIN names |-> Row(f, names[k])']
      BY <3>1
    <3>4. listing'[f].dirs = dirs /\ listing'[f].files = rows
      BY <2>2
    <3> QED
      BY <3>2, <3>3, <3>4 DEF ListedAs
  <2>4. ASSUME NEW g \in DOMAIN listing, g # f PROVE ListedAs(g)'
    <3>1. listing'[g] = listing[g]
      BY <2>4
    <3>2. ListedAs(g)
      BY <2>1 DEF ListInv
    <3> QED
      BY <2>1, <3>1, <3>2, ListedStays
  <2> QED
    BY <2>1, <2>2, <2>3, <2>4 DEF ListInv
<1> QED
  BY <1>3, <1>4, <1>5, <1>6, <1>7, <1>8, <1>9, <1>10 DEF Next

(* Whichever order std::sort leaves, every element is listed. *)
LEMMA OutcomeIsFull ==
  ASSUME NEW S, IsFiniteSet(S), NEW q \in SortOutcomes(S)
  PROVE  /\ Cardinality(S) \in Nat /\ q \in [1..Cardinality(S) -> S]
         /\ \A x \in S : \E i \in 1..Cardinality(S) : q[i] = x
<1> PICK n \in Nat : n = Cardinality(S)
  BY FS_CardinalityType
<1>1. q \in [1..n -> S] /\ \A i, j \in DOMAIN q : q[i] = q[j] => i = j
  BY DEF SortOutcomes
<1>2. q \in Injection(1..n, S)
  BY <1>1 DEF Injection, IsInjective
<1>3. Cardinality(1..n) = n
  BY FS_Interval
<1>4. q \in Surjection(1..n, S)
  BY <1>2, <1>3, FS_Injection
<1>5. \A x \in S : \E i \in 1..n : q[i] = x
  BY <1>4 DEF Surjection
<1> QED
  BY <1>1, <1>5

(* So a folder is listed with all that is in it. *)
LEMMA ListedFacts ==
  ASSUME NEW f, ListedAs(f), IsFiniteSet(FoldersIn(f)), IsFiniteSet(FileNamesIn(f))
  PROVE  /\ ToSet(listing[f].dirs) = FoldersIn(f)
         /\ ToSet(listing[f].files) = {Row(f, name) : name \in FileNamesIn(f)}
<1>1. ToSet(listing[f].dirs) = FoldersIn(f)
  <2> PICK q : q = listing[f].dirs
    OBVIOUS
  <2> PICK S : S = FoldersIn(f)
    OBVIOUS
  <2>1. q \in [1..Cardinality(S) -> S] /\ \A x \in S : \E i \in 1..Cardinality(S) : q[i] = x
    BY OutcomeIsFull DEF ListedAs
  <2>2. {q[i] : i \in DOMAIN q} = S
    BY <2>1
  <2> QED
    BY <2>2 DEF ToSet
<1>2. ToSet(listing[f].files) = {Row(f, name) : name \in FileNamesIn(f)}
  <2> PICK S : S = FileNamesIn(f)
    OBVIOUS
  <2> PICK q \in SortOutcomes(S) : listing[f].files = [k \in DOMAIN q |-> Row(f, q[k])]
    BY DEF ListedAs
  <2>1. q \in [1..Cardinality(S) -> S] /\ \A x \in S : \E i \in 1..Cardinality(S) : q[i] = x
    BY OutcomeIsFull
  <2>2. {Row(f, q[i]) : i \in DOMAIN q} = {Row(f, name) : name \in S}
    BY <2>1
  <2> QED
    BY <2>2 DEF ToSet
<1> QED
  BY <1>1, <1>2

(* The images of a finite set by Last. *)
LEMMA LastsAreFinite ==
  ASSUME NEW S, IsFiniteSet(S)
  PROVE  IsFiniteSet({Last(g) : g \in S})
<1> PICK T : T = {Last(g) : g \in S}
  OBVIOUS
<1> PICK h : h = [g \in S |-> Last(g)]
  OBVIOUS
<1>1. h \in Surjection(S, T)
  BY DEF Surjection
<1> QED
  BY <1>1, FS_Surjection

-----------------------------------------------------------------------------
(* The parts of the names in an archive. *)

(* A part that is not empty. *)
Part == Name \ {<< >>}

(* The dense sequence of parts that are not empty is the sequence. *)
LEMMA DenseOfFull == \A s \in Seq(Part) : Dense(s) = s
<1> DEFINE T == {s \in Seq(Part) : Dense(s) = s}
<1>1. << >> \in T
  BY DenseEmpty
<1>2. ASSUME NEW s \in Seq(Part), NEW c \in Part, s \in T PROVE Append(s, c) \in T
  <2>1. s \in Seq(Name) /\ c \in Name /\ c # << >>
    BY SeqMonotonic DEF Part
  <2>2. Dense(Append(s, c)) = DenseStep(Dense(s), c)
    BY <2>1, DenseAppend
  <2>3. Append(s, c) \in Seq(Part)
    BY AppendProperties
  <2> QED
    BY <1>2, <2>1, <2>2, <2>3 DEF DenseStep
<1> HIDE DEF T
<1>3. \A s \in Seq(Part) : s \in T
  BY <1>1, <1>2, SeqInduction
<1> QED
  BY <1>3 DEF T

(* Then the path of a name has the parts of the name. *)
LEMMA PathIsCut ==
  ASSUME NEW name \in Name, NoEmptyParts(name)
  PROVE  Path(name) = Cut(name)
<1> PICK s \in Seq(Name) : s = Cut(name)
  BY CutType DEF Parting
<1>1. \A k \in 1..Len(s) : s[k] \in Part
  BY ElementOfSeq DEF NoEmptyParts, Part
<1>2. s \in Seq(Part)
  <2>1. s = [k \in 1..Len(s) |-> s[k]] /\ Len(s) \in Nat
    BY LenProperties
  <2>2. s \in [1..Len(s) -> Part]
    BY <1>1, <2>1
  <2> QED
    BY <2>1, <2>2, SeqDef
<1> QED
  BY <1>2, DenseOfFull, PathDef

(* A sequence with one more element. *)
LEMMA FrontOfAppend ==
  ASSUME NEW X, NEW s \in Seq(X), NEW e \in X
  PROVE  Front(Append(s, e)) = s /\ Last(Append(s, e)) = e
<1> PICK a : a = Append(s, e)
  OBVIOUS
<1> PICK n \in Nat : n = Len(s)
  BY LenProperties
<1>1. a \in Seq(X) /\ Len(a) = n + 1 /\ a[n + 1] = e /\ \A i \in 1..n : a[i] = s[i]
  BY AppendProperties
<1>2. a # << >> /\ Len(a) - 1 = n
  BY <1>1
<1> PICK f : f = Front(a)
  OBVIOUS
<1>3. f \in Seq(X) /\ Len(f) = n /\ \A i \in 1..n : f[i] = a[i]
  BY <1>1, <1>2, FrontFacts DEF Agree
<1>4. f = [i \in 1..n |-> f[i]] /\ s = [i \in 1..n |-> s[i]]
  BY <1>3, LenProperties
<1>5. f = s
  BY <1>1, <1>3, <1>4
<1> QED
  BY <1>1, <1>5 DEF Last

(* The name of a file has the parts of its path. *)
LEMMA FoundParts ==
  ASSUME tree \in Trees, args \in Arguments, Neat, NEW x \in NamesFound(tree, args)
  PROVE  Cut(x) = Path(x) /\ Path(x) \in Seq(FileName) /\ Path(x) # << >>
<1>1. PICK i \in DOMAIN args : x \in NamesBelow(tree, args[i])
  BY DEF NamesFound
<1>2. PICK p \in FoundBelow(tree, args[i]) : x = NameOf(args[i], p)
  BY <1>1 DEF NamesBelow
<1>3. args[i] \in Name
  BY ArgumentFacts, ElementOfSeq, LenProperties
<1>4. /\ Path(x) = p /\ Path(args[i]) \o Below(args[i], p) = p
      /\ Cut(x) = Cut(args[i]) \o Below(args[i], p)
  BY <1>2, <1>3, TreeFacts, NameOfFacts
<1>5. Path(args[i]) = Cut(args[i])
  BY <1>3, PathIsCut DEF Neat
<1>6. p \in Seq(FileName) /\ p # << >>
  BY FoundIsChosen, ChosenFacts, <1>4
<1> QED
  BY <1>4, <1>5, <1>6

(* Nor does it end with a slash. *)
LEMMA FoundEnds ==
  ASSUME tree \in Trees, args \in Arguments, Neat, NEW x \in NamesFound(tree, args)
  PROVE  x \in Name /\ Last(x) # SLASH
<1>1. x \in Name
  BY FoundIsChosen
<1>2. \A k \in 1..Len(Path(x)) : Path(x)[k] # << >>
  <2> TAKE k \in 1..Len(Path(x))
  <2>1. Path(x)[k] \in FileName
    BY FoundParts, ElementOfSeq
  <2> QED
    BY <2>1, FileNamesAreNames
<1>3. x # << >>
  <2> SUFFICES ASSUME x = << >> PROVE FALSE
    OBVIOUS
  <2>1. Cut(x) = << << >> >>
    BY CutEmpty
  <2>2. Path(x) = << << >> >>
    BY <2>1, FoundParts
  <2> QED
    BY <1>2, <2>2
<1>4. Last(x) # SLASH
  <2> SUFFICES ASSUME Last(x) = SLASH PROVE FALSE
    OBVIOUS
  <2> PICK s \in Name : s = Front(x)
    BY <1>1, <1>3, FrontFacts DEF Name
  <2>1. x = Append(s, SLASH)
    BY <1>1, <1>3, FrontAndLast DEF Name
  <2>2. Cut(x) = CutStep(Cut(s), SLASH) /\ Cut(s) \in Parting
    BY <2>1, CutAppend DEF SLASH
  <2> PICK c \in Seq(Name) : c = Cut(s)
    BY <2>2 DEF Parting
  <2>3. Path(x) = Append(c, << >>)
    BY <2>2, FoundParts DEF CutStep
  <2> PICK n \in Nat : n = Len(c)
    BY LenProperties
  <2>4. Len(Path(x)) = n + 1 /\ Path(x)[n + 1] = << >>
    BY <2>3, EmptyName, AppendProperties
  <2> QED
    BY <1>2, <2>4
<1> QED
  BY <1>1, <1>4

(* The parts of the name of an entry: of a directory the last is empty. *)
LEMMA EntryParts ==
  ASSUME tree \in Trees, args \in Arguments, Neat, NEW fi \in Stats
  PROVE  /\ Cut(EntryNameOf(fi)) = IF fi.kind = "dir" THEN Append(Path(fi.fname), << >>) ELSE Path(fi.fname)
         /\ Path(fi.fname) \in Seq(FileName) /\ Path(fi.fname) # << >>
<1> PICK x : x = fi.fname
  OBVIOUS
<1>1. x \in NamesFound(tree, args)
  BY StatFacts
<1>2. Cut(x) = Path(x) /\ Path(x) \in Seq(FileName) /\ Path(x) # << >> /\ x \in Name /\ Last(x) # SLASH
  BY <1>1, FoundParts, FoundEnds
<1>3. EntryNameOf(fi) = IF fi.kind = "dir" THEN Append(x, SLASH) ELSE x
  BY <1>2 DEF EntryNameOf, EntryName
<1>4. Cut(Append(x, SLASH)) = Append(Cut(x), << >>)
  BY <1>2, CutAppend DEF SLASH, CutStep
<1> QED
  BY <1>2, <1>3, <1>4

-----------------------------------------------------------------------------
(* What the entries are of, when they are listed. *)
LEMMA AtTheListing ==
  ASSUME RecordInv, Account, stage = "list"
  PROVE  /\ BaseInv /\ ReadInv /\ DOMAIN entries = 1..Len(chs)
         /\ \A j \in 1..Len(chs) : /\ PathOf(j) \in Chosen /\ PathOf(j) \notin Lost
                                   /\ tree[PathOf(j)].kind \in {"file", "dir", "link", "chr"}
         /\ \A p \in Chosen : p \notin Lost => \E j \in 1..Len(chs) : PathOf(j) = p
         /\ \A p \in Lost : tree[p].kind # "dir"
<1>0. BaseInv /\ ReadInv /\ PackInv
  BY DEF RecordInv
<1>1. files = << >> /\ Len(<< >>) = 0 /\ DOMAIN entries = 1..Len(chs)
  BY <1>0 DEF ReadInv, PackInv
<1>2. Tasks = {} /\ Done = {}
  BY <1>1 DEF Done, Tasks
<1>3. ASSUME NEW j \in 1..Len(chs)
      PROVE  PathOf(j) \in Chosen /\ tree[PathOf(j)].kind \in {"file", "dir", "link", "chr"}
  <2>1. Tells(entries[j].local, entries[j].central, entries[j].data) /\ entries[j].central = chs[j]
        /\ PathOf(j) \in Chosen
    BY <1>0, EntryFacts
  <2>2. tree[PathOf(j)].kind # "fifo" /\ tree[PathOf(j)] \in Node
    BY <2>1 DEF Tells, PathOf
  <2> QED
    BY <2>1, <2>2, NodeFields
<1>4. ASSUME NEW p \in Lost PROVE tree[p].kind \in {"fifo", "file", "link"} /\ p \notin Packed
  <2>1. Explained(p) /\ (p \in Packed => tree[p].kind = "chr")
    BY DEF Account, LossesExplained
  <2> QED
    BY <1>2, <2>1 DEF Explained, Changed
<1>5. \A p \in Chosen : p \in Lost \/ p \in Packed
  BY <1>2 DEF Account, AllAccounted
<1>6. \A p : p \in Packed <=> \E j \in 1..Len(chs) : PathOf(j) = p
  BY DEF Packed
<1> QED
  BY <1>0, <1>1, <1>3, <1>4, <1>5, <1>6

(* Where build_tree puts an entry. *)
FolderOf(j) == IF tree[PathOf(j)].kind = "dir" THEN PathOf(j) ELSE Front(PathOf(j))

(* So an entry is listed in the folder that its path is in. *)
LEMMA PartsFacts ==
  ASSUME BaseInv, ReadInv, Neat, stage = "list", NEW j \in 1..Len(chs)
  PROVE  /\ PathOf(j) \in Seq(FileName) /\ PathOf(j) # << >>
         /\ Front(Parts(j)) = FolderOf(j)
         /\ Last(Parts(j)) = IF tree[PathOf(j)].kind = "dir" THEN << >> ELSE Last(PathOf(j))
         /\ Last(PathOf(j)) # << >>
<1> PICK p : p = PathOf(j)
  OBVIOUS
<1>1. /\ Tells(entries[j].local, entries[j].central, entries[j].data)
      /\ entries[j].central = chs[j] /\ entries[j].local.fname = chs[j].fname
  BY EntryFacts
<1>2. PICK fi \in Stats : chs[j].fname = EntryNameOf(fi) /\ Path(fi.fname) = p
  <2> DEFINE lh == entries[j].local
             ch == entries[j].central
             data == entries[j].data
  <2> HIDE DEF lh, ch, data
  <2>1. Tells(lh, ch, data) /\ ch = chs[j]
    BY <1>1 DEF lh, ch, data
  <2>2. \E fi \in Stats : ch.fname = EntryNameOf(fi) /\ Path(fi.fname) = Path(ch.fname)
    BY ONLY <2>1 DEF Tells
  <2> QED
    BY <2>1, <2>2 DEF PathOf
<1>3. fi.kind = tree[p].kind
  BY <1>2, StatFacts DEF StatOf, BaseInv
<1>4. /\ Parts(j) = IF tree[p].kind = "dir" THEN Append(p, << >>) ELSE p
      /\ p \in Seq(FileName) /\ p # << >>
  BY <1>1, <1>2, <1>3, EntryParts DEF Parts, BaseInv
<1>5. p \in Seq(Name) /\ << >> \in Name
  BY <1>4, FileNamesAreNames, EmptyName
<1>6. Last(p) \in FileName
  BY <1>4, EmptySeq, ElementOfSeq, LenProperties DEF Last
<1>7. Front(Append(p, << >>)) = p /\ Last(Append(p, << >>)) = << >>
  BY <1>5, FrontOfAppend
<1> QED
  BY <1>4, <1>6, <1>7, FileNamesAreNames DEF FolderOf

(* The directories of what was packed. *)
DirsOf(packed) == ChosenOf({"dir"}) \cup UNION {Above(Front(p)) : p \in packed}

PackedOnes == ChosenOf({"file", "dir", "link", "chr"}) \ Lost

(* They are directories of the tree that was scanned. *)
LEMMA DirsFacts ==
  ASSUME tree \in Trees, NEW d \in DirsOf(PackedOnes)
  PROVE  d \in DOMAIN tree /\ tree[d].kind = "dir" /\ d # << >> /\ d \in Seq(FileName)
<1>1. CASE d \in ChosenOf({"dir"})
  BY <1>1, ChosenFacts DEF ChosenOf
<1>2. CASE d \notin ChosenOf({"dir"})
  <2>1. PICK p \in PackedOnes : d \in Above(Front(p))
    BY <1>2 DEF DirsOf
  <2>2. p \in Chosen /\ p \in DOMAIN tree /\ p \in Seq(FileName) /\ p # << >>
    BY ChosenFacts DEF PackedOnes, ChosenOf
  <2>3. Above(p) = Above(Front(p)) \cup {p} /\ p \notin Above(Front(p))
    BY ONLY <2>2, AboveFront
  <2>4. d \in Above(p) /\ d # p
    BY <2>1, <2>3
  <2>5. d \in DOMAIN tree /\ tree[d].kind = "dir"
    BY <2>2, <2>4, OnTheWay, TreeFacts
  <2> QED
    BY <2>5, TreeFacts DEF IsFileSystem
<1> QED
  BY <1>1, <1>2

(* The folders of the listing are the directories of what was packed. *)
LEMMA FoldersAreDirs ==
  ASSUME RecordInv, Account, Neat, stage = "list"
  PROVE  Folders = DirsOf(PackedOnes) \cup {<< >>}
<1>0. BaseInv /\ ReadInv /\ DOMAIN entries = 1..Len(chs) /\ tree \in Trees
  BY AtTheListing DEF BaseInv
<1>1. \A f : f \in Folders <=> f = << >> \/ \E j \in 1..Len(chs) : f \in Above(FolderOf(j))
  BY <1>0, PartsFacts DEF Folders
<1>2. ASSUME NEW j \in 1..Len(chs)
      PROVE  /\ Above(PathOf(j)) = Above(Front(PathOf(j))) \cup {PathOf(j)}
             /\ PathOf(j) \in PackedOnes
             /\ tree[PathOf(j)].kind = "dir" => PathOf(j) \in ChosenOf({"dir"})
  <2>1. PathOf(j) \in Seq(FileName) /\ PathOf(j) # << >>
    BY <1>0, PartsFacts
  <2>2. Above(PathOf(j)) = Above(Front(PathOf(j))) \cup {PathOf(j)}
    BY ONLY <2>1, AboveFront
  <2> QED
    BY <2>2, AtTheListing DEF PackedOnes, ChosenOf
<1>3. ASSUME NEW f \in Folders, f # << >> PROVE f \in DirsOf(PackedOnes)
  <2> PICK j \in 1..Len(chs) : f \in Above(FolderOf(j))
    BY <1>1, <1>3
  <2>1. f \in Above(Front(PathOf(j))) \/ (f = PathOf(j) /\ tree[PathOf(j)].kind = "dir")
    BY <1>2 DEF FolderOf
  <2> QED
    BY <1>2, <2>1 DEF DirsOf
<1>4. ASSUME NEW p \in PackedOnes PROVE \E j \in 1..Len(chs) : PathOf(j) = p
  BY AtTheListing DEF PackedOnes, ChosenOf
<1>5. ASSUME NEW d \in DirsOf(PackedOnes) PROVE d \in Folders
  <2>1. CASE d \in ChosenOf({"dir"})
    <3>1. d \in PackedOnes /\ tree[d].kind = "dir"
      BY <2>1, AtTheListing DEF PackedOnes, ChosenOf
    <3> PICK j \in 1..Len(chs) : PathOf(j) = d
      BY <1>4, <3>1
    <3>2. d \in Above(FolderOf(j))
      BY <1>2, <3>1 DEF FolderOf
    <3> QED
      BY <1>1, <3>2
  <2>2. CASE d \notin ChosenOf({"dir"})
    <3> PICK p \in PackedOnes : d \in Above(Front(p))
      BY <2>2 DEF DirsOf
    <3> PICK j \in 1..Len(chs) : PathOf(j) = p
      BY <1>4
    <3>2. d \in Above(FolderOf(j))
      BY <1>2 DEF FolderOf
    <3> QED
      BY <1>1, <3>2
  <2> QED
    BY <2>1, <2>2
<1>6. << >> \in Folders
  BY <1>1
<1> QED
  BY <1>3, <1>5, <1>6

(* They are listed in full. *)
LEMMA ListsAreFinite ==
  ASSUME RecordInv, Account, Neat, stage = "list", NEW f
  PROVE  IsFiniteSet(FoldersIn(f)) /\ IsFiniteSet(FileNamesIn(f))
<1>0. DOMAIN entries = 1..Len(chs) /\ tree \in Trees /\ PackInv
  BY AtTheListing DEF BaseInv, RecordInv
<1>1. IsFiniteSet(FoldersIn(f))
  <2> PICK G : G = {g \in Folders : g # << >> /\ Front(g) = f}
    OBVIOUS
  <2>1. G \subseteq DOMAIN tree
    BY <1>0, FoldersAreDirs, DirsFacts
  <2>2. IsFiniteSet(DOMAIN tree)
    BY <1>0, TreeFacts DEF IsFileSystem
  <2>3. IsFiniteSet(G)
    BY <2>1, <2>2, FS_Subset
  <2> QED
    BY <2>3, LastsAreFinite DEF FoldersIn
<1>2. IsFiniteSet(FileNamesIn(f))
  <2> PICK I : I = FilesIn(f)
    OBVIOUS
  <2>1. Len(chs) \in Nat
    BY <1>0, IsSeqFacts DEF PackInv
  <2>2. I \subseteq 1..Len(chs)
    BY <1>0 DEF FilesIn
  <2>3. IsFiniteSet(I)
    <3>1. IsFiniteSet(1..Len(chs))
      BY <2>1, FS_Interval
    <3> QED
      BY <2>2, <3>1, FS_Subset
  <2> PICK T : T = {Last(Parts(i)) : i \in I}
    OBVIOUS
  <2> PICK h : h = [i \in I |-> Last(Parts(i))]
    OBVIOUS
  <2>4. h \in Surjection(I, T)
    BY DEF Surjection
  <2>5. IsFiniteSet(T)
    BY <2>3, <2>4, FS_Surjection
  <2> QED
    BY <2>5 DEF FileNamesIn
<1> QED
  BY <1>1, <1>2

(* The size that is shown. *)
SizeShown(p) == IF tree[p].kind = "chr" THEN 0 ELSE Len(tree[p].body)

(* The row of a name is that of the file there. *)
LEMMA RowFacts ==
  ASSUME RecordInv, Account, Neat, stage = "list", NEW f, NEW name \in FileNamesIn(f)
  PROVE  \E i \in 1..Len(chs) :
           /\ PathOf(i) = Append(f, name) /\ tree[PathOf(i)].kind # "dir"
           /\ Row(f, name).fname = name /\ Row(f, name).uncompressed = SizeShown(PathOf(i))
<1>0. BaseInv /\ ReadInv /\ DOMAIN entries = 1..Len(chs)
  BY AtTheListing
<1>1. \E i \in FilesIn(f) : Last(Parts(i)) = name
  BY DEF FileNamesIn
<1> PICK i : i = CHOOSE k \in FilesIn(f) : Last(Parts(k)) = name
  OBVIOUS
<1>2. i \in FilesIn(f) /\ Last(Parts(i)) = name
  BY <1>1
<1>3. i \in 1..Len(chs) /\ Front(Parts(i)) = f /\ name # << >>
  BY <1>0, <1>2 DEF FilesIn
<1>4. /\ tree[PathOf(i)].kind # "dir" /\ Front(PathOf(i)) = f /\ Last(PathOf(i)) = name
      /\ PathOf(i) \in Seq(FileName) /\ PathOf(i) # << >>
  BY <1>0, <1>2, <1>3, PartsFacts DEF FolderOf
<1>5. PathOf(i) = Append(f, name)
  BY <1>4, FrontAndLast
<1>6. /\ Tells(entries[i].local, entries[i].central, entries[i].data)
      /\ entries[i].central = chs[i]
  BY <1>0, <1>3, EntryFacts
<1>7. /\ tree[PathOf(i)].kind \in {"file", "link"} =>
           unpack_zip64_sizes(entries[i].local).uncompressed = Len(tree[PathOf(i)].body)
      /\ tree[PathOf(i)].kind = "chr" => unpack_zip64_sizes(entries[i].local).uncompressed = 0
  BY <1>6 DEF Tells, PathOf
<1>8. tree[PathOf(i)].kind \in {"file", "link", "chr"}
  BY <1>3, <1>4, AtTheListing
<1>9. /\ Row(f, name).fname = name
      /\ Row(f, name).uncompressed = unpack_zip64_sizes(entries[i].local).uncompressed
  BY DEF Row
<1> QED
  BY <1>3, <1>4, <1>5, <1>7, <1>8, <1>9 DEF SizeShown

(* Every file is in its folder. *)
LEMMA FileIsListed ==
  ASSUME RecordInv, Account, Neat, stage = "list", NEW p \in PackedOnes, tree[p].kind # "dir"
  PROVE  /\ Front(p) \in Folders /\ Last(p) \in FileNamesIn(Front(p)) /\ p = Append(Front(p), Last(p))
<1>0. BaseInv /\ ReadInv /\ DOMAIN entries = 1..Len(chs) /\ tree \in Trees
  BY AtTheListing DEF BaseInv
<1> PICK j \in 1..Len(chs) : PathOf(j) = p
  BY AtTheListing DEF PackedOnes, ChosenOf
<1>1. /\ p \in Seq(FileName) /\ p # << >> /\ Front(Parts(j)) = Front(p) /\ Last(Parts(j)) = Last(p)
      /\ Last(p) # << >>
  BY <1>0, PartsFacts DEF FolderOf
<1>2. j \in FilesIn(Front(p))
  BY <1>0, <1>1 DEF FilesIn
<1>3. Last(p) \in FileNamesIn(Front(p))
  BY <1>1, <1>2 DEF FileNamesIn
<1>4. Front(p) \in Folders
  <2> PICK f \in Seq(FileName) : f = Front(p)
    BY <1>1, FrontFacts
  <2>1. CASE f = << >>
    BY <2>1 DEF Folders
  <2>2. CASE f # << >>
    <3>1. f \in Above(f)
      BY ONLY <2>2, f \in Seq(FileName), AboveFront
    <3> QED
      BY <1>0, <1>1, <3>1 DEF Folders
  <2> QED
    BY <2>1, <2>2
<1> QED
  BY <1>1, <1>3, <1>4, FrontAndLast

(* What is shown, in a folder and its subfolders. *)
Rows == UNION {{<<Append(f, row.fname), row.uncompressed>> : row \in ToSet(listing[f].files)} : f \in Folders}

(* They are the files that were packed. *)
LEMMA RowsAreFiles ==
  ASSUME RecordInv, Account, ListInv, Neat, Listed
  PROVE  Rows = {<<p, SizeShown(p)>> : p \in PackedOnes \ DirsOf(PackedOnes)}
<1>0. stage = "list" /\ DOMAIN listing = Folders /\ tree \in Trees
  BY DEF Listed, RecordInv, BaseInv
<1>1. \A f \in Folders : ListedAs(f)
  BY <1>0 DEF ListInv
<1>2. ASSUME NEW f \in Folders
      PROVE  ToSet(listing[f].files) = {Row(f, name) : name \in FileNamesIn(f)}
  BY <1>0, <1>1, ListsAreFinite, ListedFacts
<1>3. \A x : x \in Rows <=> \E f \in Folders : \E name \in FileNamesIn(f) :
                              x = <<Append(f, Row(f, name).fname), Row(f, name).uncompressed>>
  <2>1. \A x : x \in Rows <=> \E f \in Folders : \E row \in ToSet(listing[f].files) :
                              x = <<Append(f, row.fname), row.uncompressed>>
    BY DEF Rows
  <2>2. \A f \in Folders : \A row : row \in ToSet(listing[f].files) <=>
                                     \E name \in FileNamesIn(f) : row = Row(f, name)
    BY <1>2
  <2>3. ASSUME NEW x \in Rows
        PROVE  \E f \in Folders : \E name \in FileNamesIn(f) :
                 x = <<Append(f, Row(f, name).fname), Row(f, name).uncompressed>>
    <3> PICK f \in Folders : \E row \in ToSet(listing[f].files) : x = <<Append(f, row.fname), row.uncompressed>>
      BY <2>1
    <3> PICK row \in ToSet(listing[f].files) : x = <<Append(f, row.fname), row.uncompressed>>
      OBVIOUS
    <3> PICK name \in FileNamesIn(f) : row = Row(f, name)
      BY <2>2
    <3> QED
      OBVIOUS
  <2>4. ASSUME NEW f \in Folders, NEW name \in FileNamesIn(f)
        PROVE  <<Append(f, Row(f, name).fname), Row(f, name).uncompressed>> \in Rows
    <3> PICK row : row = Row(f, name)
      OBVIOUS
    <3>1. row \in ToSet(listing[f].files)
      BY <2>2
    <3>2. <<Append(f, row.fname), row.uncompressed>> \in Rows
      BY <2>1, <3>1
    <3> QED
      BY <3>2
  <2> QED
    BY <2>3, <2>4
<1>4. ASSUME NEW f \in Folders, NEW name \in FileNamesIn(f)
      PROVE  \E p \in PackedOnes \ DirsOf(PackedOnes) :
               <<Append(f, Row(f, name).fname), Row(f, name).uncompressed>> = <<p, SizeShown(p)>>
  <2> PICK i \in 1..Len(chs) :
        /\ PathOf(i) = Append(f, name) /\ tree[PathOf(i)].kind # "dir"
        /\ Row(f, name).fname = name /\ Row(f, name).uncompressed = SizeShown(PathOf(i))
    BY <1>0, RowFacts
  <2>1. PathOf(i) \in PackedOnes
    BY <1>0, AtTheListing DEF PackedOnes, ChosenOf
  <2>2. PathOf(i) \notin DirsOf(PackedOnes)
    BY <1>0, DirsFacts
  <2> QED
    BY <2>1, <2>2
<1>5. ASSUME NEW p \in PackedOnes \ DirsOf(PackedOnes)
      PROVE  \E f \in Folders : \E name \in FileNamesIn(f) :
               <<p, SizeShown(p)>> = <<Append(f, Row(f, name).fname), Row(f, name).uncompressed>>
  <2>1. tree[p].kind # "dir"
    BY DEF DirsOf, PackedOnes, ChosenOf
  <2> PICK f, name : f = Front(p) /\ name = Last(p)
    OBVIOUS
  <2>2. f \in Folders /\ name \in FileNamesIn(f) /\ p = Append(f, name)
    BY <1>0, <2>1, FileIsListed
  <2>3. \E i \in 1..Len(chs) :
          /\ PathOf(i) = Append(f, name)
          /\ Row(f, name).fname = name /\ Row(f, name).uncompressed = SizeShown(PathOf(i))
    BY <1>0, <2>2, RowFacts
  <2>4. Row(f, name).fname = name /\ Row(f, name).uncompressed = SizeShown(p)
    BY <2>2, <2>3
  <2> QED
    BY <2>2, <2>4
<1> DEFINE Files == {<<p, SizeShown(p)>> : p \in PackedOnes \ DirsOf(PackedOnes)}
<1>6. \A x \in Rows : x \in Files
  BY <1>3, <1>4
<1>7. \A x \in Files : x \in Rows
  BY <1>3, <1>5
<1> QED
  BY <1>6, <1>7

(* A folder shows the directories that are in it. *)
LEMMA SubfoldersAreDirs ==
  ASSUME RecordInv, Account, ListInv, Neat, Listed, NEW f \in Folders
  PROVE  ToSet(listing[f].dirs) = {Last(d) : d \in {d \in DirsOf(PackedOnes) : Front(d) = f}}
<1>0. stage = "list" /\ DOMAIN listing = Folders /\ tree \in Trees
  BY DEF Listed, RecordInv, BaseInv
<1>1. ListedAs(f)
  BY <1>0 DEF ListInv
<1>2. ToSet(listing[f].dirs) = FoldersIn(f)
  BY <1>0, <1>1, ListsAreFinite, ListedFacts
<1>3. \A g : g \in Folders /\ g # << >> <=> g \in DirsOf(PackedOnes)
  BY <1>0, FoldersAreDirs, DirsFacts
<1>4. {g \in Folders : g # << >> /\ Front(g) = f} = {d \in DirsOf(PackedOnes) : Front(d) = f}
  BY <1>3
<1> QED
  BY <1>2, <1>4 DEF FoldersIn

(* Every folder that is listed is listed so. *)
LEMMA ListInvariant == Spec => []ListInv
<1>1. Init => ListInv
  BY DEF Init, ListInv
<1> QED
  BY <1>1, ListNext, PTL DEF Spec

(* If no argument is at or below another, the GTK program lists every      *)
(* packed file in its folder, with its size, and every directory, and no   *)
(* more, in whatever order std::sort leaves them.                          *)
THEOREM ListingsMatch == Spec => [](Apart(args) => ListingMatchesTree)
<1>1. RecordInv /\ TripInv /\ ListInv => (Apart(args) => ListingMatchesTree)
  <2> SUFFICES ASSUME RecordInv, Account, ListInv, Neat, Listed
               PROVE  /\ Rows = {<<p, SizeShown(p)>> : p \in PackedOnes \ DirsOf(PackedOnes)}
                      /\ Folders = DirsOf(PackedOnes) \cup {<< >>}
                      /\ \A f \in Folders : ToSet(listing[f].dirs) =
                           {Last(d) : d \in {d \in DirsOf(PackedOnes) : Front(d) = f}}
    BY DEF TripInv, ListingMatchesTree, Rows, SizeShown, PackedOnes, DirsOf
  <2>1. stage = "list"
    BY DEF Listed
  <2> QED
    BY <2>1, RowsAreFiles, FoldersAreDirs, SubfoldersAreDirs
<1> QED
  BY <1>1, TripInvariant, ListInvariant, PTL

-----------------------------------------------------------------------------
(* The order of the listing. *)

(* So the comparator tells what comes after. *)
LEMMA AfterIsLess ==
  ASSUME NEW s \in Name, NEW t \in Name, ComesAfter(s, t)
  PROVE  NaturalLess(t, s)
<1>0. Len(s) \in Nat /\ Len(t) \in Nat /\ DOMAIN s = 1..Len(s) /\ DOMAIN t = 1..Len(t)
  BY LenProperties DEF Name
<1>1. PICK k \in DOMAIN s \cap DOMAIN t : SubSeq(s, 1, k - 1) = SubSeq(t, 1, k - 1) /\ Smaller(t, s, k)
  BY DEF ComesAfter, Smaller
<1>2. k \in 1..Len(s) /\ k <= Len(t) /\ k - 1 \in Nat /\ k - 1 <= Len(s) /\ k - 1 <= Len(t)
  BY <1>0
<1>3. Agree(s, t, k - 1)
  BY <1>1, <1>2, SubSeqAgree DEF Name
<1>4. \A j \in 1..(k - 1) : s[j] = t[j]
  BY <1>3 DEF Agree
<1>5. Before(t, s, 1)
  BY <1>1, <1>2, <1>4, DecidesFrom
<1> QED
  BY <1>5, NaturalDef DEF NaturalLess, Before

(* The names of what is in a folder. *)
LEMMA PartsAreNames ==
  ASSUME BaseInv, ReadInv, stage \in {"list", "unpack", "exit"}, NEW f
  PROVE  FoldersIn(f) \subseteq Name /\ FileNamesIn(f) \subseteq Name
<1>1. DOMAIN entries = 1..Len(chs)
  BY DEF ReadInv
<1>2. ASSUME NEW j \in 1..Len(chs) PROVE Front(Parts(j)) \in Seq(Name) /\ Last(Parts(j)) \in Name
  <2>1. entries[j].local.fname \in Name
    BY EntryFacts
  <2> QED
    BY <2>1, CutType, PartingFacts DEF Parts
<1>3. FileNamesIn(f) \subseteq Name
  BY <1>1, <1>2 DEF FileNamesIn, FilesIn
<1>4. ASSUME NEW g \in Folders, g # << >> PROVE Last(g) \in Name
  <2> PICK j \in 1..Len(chs) : g \in Above(Front(Parts(j)))
    BY <1>1, <1>4 DEF Folders
  <2>1. g \in Seq(Name)
    BY <1>2, AboveFacts
  <2>2. Len(g) \in 1..Len(g)
    BY <1>4, <2>1, EmptySeq, LenProperties
  <2> QED
    BY <2>1, <2>2, ElementOfSeq DEF Last
<1>5. FoldersIn(f) \subseteq Name
  BY <1>4 DEF FoldersIn
<1> QED
  BY <1>3, <1>5

(* Sorted with a strict weak order, names are in natural order. *)
LEMMA SortedIsNatural ==
  ASSUME NEW names, names \subseteq Name, IsStrictWeak(names), NEW q \in SortOutcomes(names)
  PROVE  \A i, j \in DOMAIN q : q[i] \in names /\ q[j] \in names /\ (i < j => ~ComesAfter(q[i], q[j]))
<1>1. /\ q \in [1..Cardinality(names) -> names]
      /\ \A i, j \in DOMAIN q : i < j => ~NaturalLess(q[j], q[i])
  BY DEF SortOutcomes
<1> SUFFICES ASSUME NEW i \in DOMAIN q, NEW j \in DOMAIN q
             PROVE  q[i] \in names /\ q[j] \in names /\ (i < j => ~ComesAfter(q[i], q[j]))
  OBVIOUS
<1>2. q[i] \in names /\ q[j] \in names
  BY <1>1
<1>3. ComesAfter(q[i], q[j]) => NaturalLess(q[j], q[i])
  BY <1>2, AfterIsLess
<1> QED
  BY <1>1, <1>2, <1>3

(* Wherever natural_less is a strict weak order on the names of a folder,  *)
(* as std::sort requires, the folder is listed in natural order.           *)
THEOREM ListingsAreNatural == Spec => [](SortIsSound => ListingIsNatural)
<1>1. ASSUME RecordInv, ListInv, SortIsSound PROVE ListingIsNatural
  <2> SUFFICES ASSUME NEW f \in DOMAIN listing
               PROVE  /\ \A i, j \in DOMAIN listing[f].files :
                           i < j => ~ComesAfter(listing[f].files[i].fname, listing[f].files[j].fname)
                      /\ \A i, j \in DOMAIN listing[f].dirs :
                           i < j => ~ComesAfter(listing[f].dirs[i], listing[f].dirs[j])
    BY DEF ListingIsNatural
  <2>1. stage \in {"list", "unpack", "exit"} /\ ListedAs(f)
    BY <1>1 DEF ListInv
  <2>2. FoldersIn(f) \subseteq Name /\ FileNamesIn(f) \subseteq Name
    BY <1>1, <2>1, PartsAreNames DEF RecordInv
  <2>3. IsStrictWeak(FoldersIn(f)) /\ IsStrictWeak(FileNamesIn(f))
    BY <1>1 DEF SortIsSound
  <2>4. \A i, j \in DOMAIN listing[f].dirs : i < j => ~ComesAfter(listing[f].dirs[i], listing[f].dirs[j])
    BY <2>1, <2>2, <2>3, SortedIsNatural DEF ListedAs
  <2> PICK q \in SortOutcomes(FileNamesIn(f)) : listing[f].files = [k \in DOMAIN q |-> Row(f, q[k])]
    BY <2>1 DEF ListedAs
  <2>5. \A i, j \in DOMAIN q : i < j => ~ComesAfter(q[i], q[j])
    BY <2>2, <2>3, SortedIsNatural
  <2>6. /\ DOMAIN listing[f].files = DOMAIN q
        /\ \A k \in DOMAIN q : listing[f].files[k].fname = q[k]
    BY DEF Row
  <2> QED
    BY <2>4, <2>5, <2>6
<1> QED
  BY <1>1, TripInvariant, ListInvariant, PTL

(* In every folder, numbers meet numbers and characters meet characters. *)
Alike == \A f \in DOMAIN listing : WordsAreAlike(FoldersIn(f)) /\ WordsAreAlike(FileNamesIn(f))

(* Then std::sort is used as it may be, and the listing is in order.       *)
THEOREM AlikeListingsAreNatural == Spec => [](Alike => SortIsSound /\ ListingIsNatural)
<1>1. ASSUME RecordInv, ListInv, Alike PROVE SortIsSound
  <2>1. ASSUME NEW f \in DOMAIN listing
        PROVE  IsStrictWeak(FoldersIn(f)) /\ IsStrictWeak(FileNamesIn(f))
    <3>1. stage \in {"list", "unpack", "exit"}
      BY <1>1 DEF ListInv
    <3>2. FoldersIn(f) \subseteq Name /\ FileNamesIn(f) \subseteq Name
      BY <1>1, <3>1, PartsAreNames DEF RecordInv
    <3> QED
      BY <1>1, <3>2, AlikeIsSound DEF Alike
  <2> QED
    BY <2>1 DEF SortIsSound
<1> QED
  BY <1>1, TripInvariant, ListInvariant, ListingsAreNatural, PTL
=============================================================================

---------------------------- MODULE EntryFormat ------------------------------
(***************************************************************************)
(* One file on its way through an archive: what parzip records of it       *)
(* (get_unix_stats, compress_entry, write_entry) and what the readers make *)
(* of the record (read_local_entry, unpack_entry).  An extra field is a    *)
(* sequence of records with a tag; a CRC is the data it was made of.       *)
(***************************************************************************)
EXTENDS FileTree, ArchiveReader

CONSTANTS
  TooSmall,   \* TOO_SMALL_FOR_LZMA, 512 in the code
  DirSize     \* the size that stat gives of a directory

ASSUME FormatAssumption == TooSmall \in Nat /\ DirSize \in Nat

ZIP_EXTRA_ZIP64 == 1
ZIP_EXTRA_UNIX == 13

(* Slip: they are as wide as the system's. *)
U16Wide(n) == n

(* The ids of unixextra are 16 bits wide. *)
U16(n) == n % 65536

(* What a C string that starts like bytes holds. *)
UpToNul(bytes) ==
  SubSeq(bytes, 1, CHOOSE k \in 0..Len(bytes) :
                     /\ \A i \in 1..k : bytes[i] # 0
                     /\ k < Len(bytes) => bytes[k + 1] = 0)

get_unix_stats(fs, name) ==
  LET n == fs[Path(name)]
  IN  [fname |-> name, uid |-> U16(n.uid), gid |-> U16(n.gid), atime |-> n.atime,
       mtime |-> n.mtime, kind |-> n.kind, mode |-> n.mode, device |-> n.body,
       fsize |-> CASE n.kind = "dir" -> DirSize
                   [] n.kind \in {"file", "link"} -> Len(n.body)
                   [] OTHER -> 0]

(* The coders are taken to be each other's inverse, and their output to be *)
(* one cell that only the same method can decode.                          *)
Encode(method, body) ==
  IF method = "store" THEN [i \in DOMAIN body |-> [kind |-> "data", byte |-> body[i]]]
  ELSE <<[kind |-> "data", method |-> method, body |-> body]>>

Decode(method, data) ==
  IF method = "store" THEN [i \in DOMAIN data |-> data[i].byte] ELSE data[1].body

(* compress_entry() does not throw: the file is still there, and a link no *)
(* longer than it was when it was scanned.                                 *)
CanPack(fs, fi) ==
  /\ fi.kind # "fifo"
  /\ fi.kind \in {"file", "link"} => Path(fi.fname) \in DOMAIN fs
  /\ fi.kind = "link" => Len(fs[Path(fi.fname)].body) <= fi.fsize

(* An assertion of is_compressible() ends the process: the file was large  *)
(* when it was scanned, and is now empty.                                  *)
Asserts(fs, fi) ==
  /\ fi.kind = "file" /\ fi.fsize >= TooSmall
  /\ Path(fi.fname) \in DOMAIN fs
  /\ fs[Path(fi.fname)].body = << >>

(* A file that is_compressible() finds to gain nothing is stored.          *)
Methods(fi) == IF fi.kind = "file" /\ fi.fsize >= TooSmall THEN {"lzma", "store"} ELSE {"store"}

(* What the queue of fi and its compressresult get.  create_symlink puts   *)
(* the target in both, create_chrdev the numbers in the latter.            *)
compress_entry(fs, fi, method) ==
  LET body == IF fi.kind \in {"file", "link"} THEN fs[Path(fi.fname)].body ELSE << >>
  IN  [entrytype |-> IF fi.kind = "link" THEN "file" ELSE fi.kind,
       cformat |-> method, crc32 |-> body, data |-> Encode(method, body),
       additional |-> IF fi.kind = "chr" THEN fi.device ELSE IF fi.kind = "link" THEN body ELSE << >>]

pack_zip64(uncompressed, compressed, offset) ==
  [tag |-> ZIP_EXTRA_ZIP64, uncompressed |-> uncompressed, compressed |-> compressed,
   offset |-> offset]

pack_unix_extra(fi, data) ==
  [tag |-> ZIP_EXTRA_UNIX, atime |-> fi.atime, mtime |-> fi.mtime, uid |-> fi.uid,
   gid |-> fi.gid, data |-> data]

EntryName(fi, entrytype) ==
  IF entrytype = "dir" /\ Last(fi.fname) # SLASH THEN Append(fi.fname, SLASH) ELSE fi.fname

(* Slip: pack_zip64's arguments are swapped. *)
LocalHeaderSwapped(fi, r, offset) ==
  [kind |-> "local", flags |-> {}, compression |-> r.cformat, crc32 |-> r.crc32,
   size |-> Placeholder, fname |-> EntryName(fi, r.entrytype),
   extra |-> <<pack_zip64(Len(r.data), fi.fsize, offset), pack_unix_extra(fi, UpToNul(r.additional))>>]

(* The local header that write_entry leaves, after it has been fixed: both *)
(* sizes are placeholders, to be read from the extra field.  offset: of    *)
(* the header in the archive.                                              *)
LocalHeader(fi, r, offset) ==
  [kind |-> "local", flags |-> {}, compression |-> r.cformat, crc32 |-> r.crc32,
   size |-> Placeholder, fname |-> EntryName(fi, r.entrytype),
   extra |-> <<pack_zip64(fi.fsize, Len(r.data), offset), pack_unix_extra(fi, UpToNul(r.additional))>>]

CentralHeader(fi, lh, offset) ==
  [kind |-> "central", compression_method |-> lh.compression, crc32 |-> lh.crc32,
   fname |-> lh.fname, type |-> fi.kind, mode |-> fi.mode, offset |-> offset]

Field(extra, tag) == extra[CHOOSE i \in DOMAIN extra :
                             extra[i].tag = tag /\ \A j \in 1..(i - 1) : extra[j].tag # tag]

(* The sizes of an entry, from the extra field of its local header. *)
unpack_zip64_sizes(lh) ==
  [compressed   |-> Field(lh.extra, ZIP_EXTRA_ZIP64).compressed,
   uncompressed |-> Field(lh.extra, ZIP_EXTRA_ZIP64).uncompressed]

(* Slip: the owner of the entry is not taken from the field. *)
UnpackUnixNoOwner(lh) ==
  [Field(lh.extra, ZIP_EXTRA_UNIX) EXCEPT !.data = << >>, !.uid = Self, !.gid = Self]

(* unpack_unix() gives the data the length that the byte behind it says.   *)
(* The field is the last of the string, so that is the terminator: 0.      *)
unpack_unix(lh) == [Field(lh.extra, ZIP_EXTRA_UNIX) EXCEPT !.data = << >>]

(* What readLocalFileHeaders goes by. *)
Sized(a) == [p \in DOMAIN a |->
               IF a[p].kind = "local" THEN [a[p] EXCEPT !.size = unpack_zip64_sizes(a[p]).compressed]
               ELSE a[p]]

CheckFilename(fname) == fname # << >> /\ ~is_absolute_path(fname)
=============================================================================

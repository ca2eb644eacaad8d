--------------------------------- MODULE Cos ---------------------------------
(***************************************************************************)
(* The two uploads of src/cos/bucket.go, one call at a time, to one object *)
(* key (the caller's fileName):                                            *)
(*   - UploadLocalFile reads a local file;                                 *)
(*   - UploadFileContent takes the content as a string.                    *)
(* Each checks the size, then either Puts the object in one request or,    *)
(* from maxUnSliceFileSize up, runs a multipart upload: Initiate, one      *)
(* UploadPart per slice of sliceSize1M, CompleteMultipartUpload.  Every    *)
(* request to COS may fail.  Bytes are abstracted to a small alphabet and  *)
(* the two size constants are scaled down, keeping their relation to the   *)
(* sizes: below MaxUnSlice one Put, from it on (size \div Slice) + 1 parts.*)
(***************************************************************************)
EXTENDS Integers, Sequences, SequencesExt

CONSTANTS
  Bytes,          \* values of a byte of content
  Zero,           \* the zero byte of a freshly made buffer
  Slice,          \* sliceSize1M
  MaxUnSlice,     \* maxUnSliceFileSize
  FileSizeLimit,  \* Bucket.FileSizeLimit
  MaxLen,         \* longest file or content enumerated
  Kinds,          \* which uploads the caller uses: "local", "content"
  MaxCalls        \* upload calls in one behaviour

ASSUME /\ Zero \notin Bytes
       /\ 0 < Slice /\ Slice < MaxUnSlice
       /\ Kinds \subseteq {"local", "content"}

Contents == UNION {[1..n -> Bytes] : n \in 0..MaxLen}

VARIABLES
  pc,       \* "idle", "parts" (in the multipart loop) or "done"
  kind,     \* the call in progress: "local" or "content"
  src,      \* the file, or content, the call was given
  rest,     \* local: bytes f.Read has not returned; content: `content`
  i,        \* the loop's part number
  nParts,   \* parts := (fileSize / sliceSize1M) + 1
  parts,    \* opt.Parts: the bodies of the parts uploaded so far
  stored,   \* the object COS holds at the key (<<>> before any upload)
  open,     \* multipart uploads initiated and neither completed nor aborted
  ret,      \* what the last call returned: "ok" or "err"
  calls     \* upload calls made

vars == <<pc, kind, src, rest, i, nParts, parts, stored, open, ret, calls>>

\* zero bytes the buffer has beyond what one read filled
ZeroFill(n) == [j \in 1..n |-> Zero]

SliceLen(s) == IF Len(s) < Slice THEN Len(s) ELSE Slice

\* Mutant: parts := fileSize / sliceSize1M, without the + 1
PartCountNoPlusOne(c) == Len(c) \div Slice

\* parts := (fileSize / sliceSize1M) + 1
PartCount(c) == Len(c) \div Slice + 1

(***************************************************************************)
(* The start of a call, up to its first request.  A call that returns an   *)
(* error before any request to COS, one Put, or InitiateMultipartUpload.   *)
(* The loop's i and opt.Parts are fresh locals of each call.               *)
(***************************************************************************)
\* Mutant: the part loop starts at i := 0
BeginAtZero(k, c) ==
  /\ pc \in {"idle", "done"}
  /\ calls < MaxCalls
  /\ calls' = calls + 1
  /\ kind' = k
  /\ src' = c
  /\ i' = 0
  /\ parts' = <<>>

Begin(k, c) ==
  /\ pc \in {"idle", "done"}
  /\ calls < MaxCalls
  /\ calls' = calls + 1
  /\ kind' = k
  /\ src' = c
  /\ i' = 1
  /\ parts' = <<>>

Return(r) ==
  /\ pc' = "done"
  /\ ret' = r

\* Put of the whole object in one request: stored, or an error
PutObject(c) ==
  /\ Len(c) < MaxUnSlice
  /\ \/ stored' = c /\ Return("ok")
     \/ Return("err") /\ UNCHANGED stored
  /\ UNCHANGED <<rest, nParts, open>>

\* UploadLocalFile's Put of the opened file: the same request
LocalPutObject(c) == PutObject(c)

\* InitiateMultipartUpload fails, or opens an upload and starts the loop
Initiate(c) ==
  /\ Len(c) >= MaxUnSlice
  /\ \/ Return("err") /\ UNCHANGED <<rest, nParts, open>>
     \/ /\ pc' = "parts"
        /\ rest' = c
        /\ nParts' = PartCount(c)
        /\ open' = open + 1
        /\ UNCHANGED ret
  /\ UNCHANGED stored

\* UploadLocalFile (bucket.go:32-97): the size limit, then Put or Initiate
LocalBegin(c) ==
  /\ Begin("local", c)
  /\ \/ /\ Len(c) > FileSizeLimit
        /\ Return("err")
        /\ UNCHANGED <<rest, nParts, stored, open>>
     \/ Len(c) <= FileSizeLimit /\ (LocalPutObject(c) \/ Initiate(c))

\* UploadFileContent (bucket.go:126-181): empty content and the size limit
\* are errors, then Put or Initiate
ContentBegin(c) ==
  /\ Begin("content", c)
  /\ \/ /\ Len(c) = 0 \/ Len(c) > FileSizeLimit
        /\ Return("err")
        /\ UNCHANGED <<rest, nParts, stored, open>>
     \/ /\ 0 < Len(c) /\ Len(c) <= FileSizeLimit
        /\ PutObject(c) \/ Initiate(c)

(***************************************************************************)
(* One turn of the multipart loop, for i in 1..parts.                     *)
(***************************************************************************)
\* uploadPart (bucket.go:208-215) succeeds: its part is appended to opt.Parts
UploadPart(buf) ==
  /\ parts' = Append(parts, buf)
  /\ i' = i + 1

\* UploadLocalFile (98-116): f.Read into a fresh sliceSize1M buffer.  A read
\* at the end of the file returns io.EOF and the call returns the error;
\* otherwise the whole buffer, zero bytes past what was read included, is
\* uploaded.
LocalPart ==
  /\ pc = "parts" /\ kind = "local" /\ i <= nParts
  /\ \/ /\ rest = <<>>
        /\ Return("err")
        /\ UNCHANGED <<rest, i, parts>>
     \/ /\ rest # <<>>
        /\ UploadPart(SubSeq(rest, 1, SliceLen(rest)) \o
                      ZeroFill(Slice - SliceLen(rest)))
        /\ rest' = SubSeq(rest, SliceLen(rest) + 1, Len(rest))
        /\ UNCHANGED <<pc, ret>>
  /\ UNCHANGED <<kind, src, nParts, stored, open, calls>>

\* UploadFileContent (182-198): buf := content[:pos], content = content[pos:]
ContentPart ==
  /\ pc = "parts" /\ kind = "content" /\ i <= nParts
  /\ UploadPart(SubSeq(rest, 1, SliceLen(rest)))
  /\ rest' = SubSeq(rest, SliceLen(rest) + 1, Len(rest))
  /\ UNCHANGED <<pc, ret, kind, src, nParts, stored, open, calls>>

\* uploadPart returns an error; the loop returns it at once
PartFail ==
  /\ pc = "parts" /\ i <= nParts
  /\ Return("err")
  /\ UNCHANGED <<kind, src, rest, i, nParts, parts, stored, open, calls>>

\* CompleteMultipartUpload (117-123, 199-205): COS stores the parts in order
Complete ==
  /\ pc = "parts" /\ i > nParts
  /\ \/ /\ stored' = FlattenSeq(parts)
        /\ open' = open - 1
        /\ Return("ok")
     \/ Return("err") /\ UNCHANGED <<stored, open>>
  /\ UNCHANGED <<kind, src, rest, i, nParts, parts, calls>>

Init ==
  /\ pc = "idle"
  /\ kind = "content"
  /\ src = <<>>
  /\ rest = <<>>
  /\ i = 1
  /\ nParts = 0
  /\ parts = <<>>
  /\ stored = <<>>
  /\ open = 0
  /\ ret = "ok"
  /\ calls = 0

Next ==
  \/ \E c \in Contents :
       \/ "local" \in Kinds /\ LocalBegin(c)
       \/ "content" \in Kinds /\ ContentBegin(c)
  \/ LocalPart \/ ContentPart \/ PartFail \/ Complete

Spec == Init /\ [][Next]_vars

(***************************************************************************)
(* Properties.                                                             *)
(***************************************************************************)
MaxParts == MaxLen \div Slice + 1

TypeOK ==
  /\ pc \in {"idle", "parts", "done"}
  /\ kind \in {"local", "content"}
  /\ src \in Contents /\ rest \in Contents
  /\ nParts \in 0..MaxParts
  /\ i \in 1..nParts + 1
  /\ parts \in Seq(UNION {[1..n -> Bytes \cup {Zero}] : n \in 0..Slice})
  /\ open \in 0..MaxCalls
  /\ ret \in {"ok", "err"}
  /\ calls \in 0..MaxCalls

\* UploadFileContent: when it returns success, the object COS holds is the
\* content it was given, byte for byte, whether it was Put at once or cut
\* into parts by the (size / sliceSize1M) + 1 loop.
ContentUploadStoresContent ==
  pc = "done" /\ ret = "ok" /\ kind = "content" => stored = src

\* Either upload, when it returns success, leaves at the key exactly the
\* file or content it was given.
UploadStoresSource ==
  pc = "done" /\ ret = "ok" => stored = src
=============================================================================

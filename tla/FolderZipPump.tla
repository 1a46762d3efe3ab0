---------------------------- MODULE FolderZipPump ----------------------------
(***************************************************************************)
(* The folder download: operator/client/folder_zip_pump.c.  The archive is *)
(* written straight to the socket while the blobs are read, after a header *)
(* whose Content-Length was computed from the metadata alone.  What counts *)
(* is how many bytes have been written and where each entry began, so an   *)
(* entry is the length of its name and its size and a record is its length.*)
(***************************************************************************)
EXTENDS ResponseWriter

CONSTANT Folders    \* the folders that may be asked for: sequences of [nl, sz]

ASSUME FolderAssumption == Folders \subseteq Seq([nl : Nat, sz : Nat])

VARIABLE zip
\* entries   what DB_app enumerated        off    the pump's own count of what it has written
\* i         the entry in hand             out    what _write_all has handed to the kernel
\* left      its bytes still to come       at     db_app_folder_zip_set_result: the offset of each entry
\* blob      its blob is open              handle the db_app_folder_zip_t: none, open, released (or twice)

NoZip == [entries |-> <<>>, i |-> 1, left |-> 0, blob |-> FALSE, off |-> 0, out |-> 0, at |-> <<>>,
          handle |-> "none"]

ZIP_LH      == 30
ZIP_LX      == 20
ZIP_DD      == 24
ZIP_CD      == 46
ZIP_CX      == 28
ZIP_Z64EOCD == 56
ZIP_Z64LOC  == 20
ZIP_EOCD    == 22

\* The two sums of the pump's first loop.
LocalSize(e)   == ZIP_LH + ZIP_LX + e.nl + e.sz + ZIP_DD
CentralSize(e) == ZIP_CD + ZIP_CX + e.nl

\* The running sums of the lengths w: Sums(w)[n] is that of the first n.
Sums(w) ==
    LET sum[n \in 0..Len(w)] == IF n = 0 THEN 0 ELSE sum[n - 1] + w[n]
    IN  sum

LocalSums(s)    == Sums([i \in 1..Len(s) |-> LocalSize(s[i])])
LocalBytes(s)   == LocalSums(s)[Len(s)]
CentralBytes(s) == Sums([i \in 1..Len(s) |-> CentralSize(s[i])])[Len(s)]

\* Content-Length of the response.
ContentLength(s) ==
    LocalBytes(s) + CentralBytes(s) + ZIP_Z64EOCD + ZIP_Z64LOC + ZIP_EOCD

zipRest  == <<managed, conn, parsed, policy, parkVars, armed, total>>
zipFrame == UNCHANGED <<zipRest, buf>>

\* _write_all of n bytes that succeeds.  Where it fails, the pump gives up.
WriteAll(z, n) == [z EXCEPT !.out = @ + n]

\* db_app_folder_zip_release.
Released == IF zip.handle = "open" THEN "released" ELSE "twice"

\* Every failure path: the blob, if one is open, is closed, the handle released, the connection dropped
\* where it stands.
\* Mutant: a failing write of the local header returns with the blob still open.
ZipGivesUpOpen ==
    /\ zip' = [zip EXCEPT !.handle = Released]
    /\ pc' = "ret" /\ caller' = "claimed" /\ rc' = "fail"
    /\ UNCHANGED wire

ZipGivesUp ==
    /\ zip' = [zip EXCEPT !.blob = FALSE, !.handle = Released]
    /\ pc' = "ret" /\ caller' = "claimed" /\ rc' = "fail"
    /\ UNCHANGED wire

\* The archive's response on the wire: its head, and its body once the last record is out.
ZipUnit(k) == [conn |-> conn, req |-> parsed[1].req, n |-> k, of |-> 2, keep |-> FALSE]

\* The link is valid and the folder has been enumerated; Content-Length and the other headers are written.
ZipBegin ==
    /\ pc = "zip"
    /\ \E s \in Folders : zip' = [NoZip EXCEPT !.entries = s, !.handle = "open"]
    /\ pc' = "zhead"
    /\ UNCHANGED <<wire, caller, rc>>
    /\ zipFrame

ZipHead ==
    /\ pc = "zhead"
    /\ \/ /\ wire' = Append(wire, ZipUnit(1))
          /\ pc' = "zentry"
          /\ UNCHANGED <<zip, caller, rc>>
       \/ ZipGivesUp
    /\ zipFrame

\* The blob is opened and the entry's local header, name and ZIP64 extra field written.
ZipEntry ==
    /\ pc = "zentry" /\ zip.i <= Len(zip.entries)
    /\ LET e == zip.entries[zip.i]
           n == ZIP_LH + e.nl + ZIP_LX
       IN  \/ /\ zip' = WriteAll([zip EXCEPT !.blob = TRUE, !.off = @ + n, !.left = e.sz], n)
              /\ pc' = "zdata"
              /\ UNCHANGED <<wire, caller, rc>>
           \/ ZipGivesUp
    /\ zipFrame

\* read() brings part of what is left of the blob into buf and _write_all takes it from there; or the blob
\* is shorter than its metadata, or either call fails.
ZipData ==
    /\ pc = "zdata" /\ zip.left > 0
    /\ \E k \in 1..BufLen :
        /\ k <= zip.left
        /\ buf' = Fill(0, [i \in 1..k |-> Zero])
        /\ \/ /\ zip' = WriteAll([zip EXCEPT !.left = @ - k], k)
              /\ UNCHANGED <<wire, pc, caller, rc>>
           \/ ZipGivesUp
    /\ UNCHANGED zipRest

\* The blob is closed and the data descriptor written; the offset where the entry began is recorded.
\* Mutant: the offset recorded is that of the entry's data.
ZipDescriptorAtData ==
    /\ pc = "zdata" /\ zip.left = 0
    /\ LET e == zip.entries[zip.i]
       IN  \/ /\ zip' = WriteAll([zip EXCEPT !.blob = FALSE, !.off = @ + e.sz + ZIP_DD,
                                             !.at = Append(@, zip.off), !.i = @ + 1], ZIP_DD)
              /\ pc' = "zentry"
              /\ UNCHANGED <<wire, caller, rc>>
           \/ ZipGivesUp
    /\ zipFrame

ZipDescriptor ==
    /\ pc = "zdata" /\ zip.left = 0
    /\ LET e        == zip.entries[zip.i]
           entryOff == zip.off - (ZIP_LH + e.nl + ZIP_LX)
       IN  \/ /\ zip' = WriteAll([zip EXCEPT !.blob = FALSE, !.off = @ + e.sz + ZIP_DD,
                                             !.at = Append(@, entryOff), !.i = @ + 1], ZIP_DD)
              /\ pc' = "zentry"
              /\ UNCHANGED <<wire, caller, rc>>
           \/ ZipGivesUp
    /\ zipFrame

\* The central directory, a header per entry.
ZipCentral ==
    /\ pc = "zentry" /\ zip.i > Len(zip.entries)
    /\ \/ /\ zip' = WriteAll(zip, CentralBytes(zip.entries))
          /\ pc' = "zend"
          /\ UNCHANGED <<wire, caller, rc>>
       \/ ZipGivesUp
    /\ zipFrame

\* The three closing records; the handle is released whether or not they could be written.
ZipEnd ==
    /\ pc = "zend"
    /\ \/ /\ zip' = WriteAll([zip EXCEPT !.handle = Released], ZIP_Z64EOCD + ZIP_Z64LOC + ZIP_EOCD)
          /\ wire' = Append(wire, ZipUnit(2))
          /\ pc' = "ret" /\ caller' = "claimed" /\ rc' = "ok"
       \/ ZipGivesUp
    /\ zipFrame

ZipStep == ZipBegin \/ ZipHead \/ ZipEntry \/ ZipData \/ ZipDescriptor \/ ZipCentral \/ ZipEnd

(***************************************************************************)
(* Properties.                                                             *)
(***************************************************************************)
ZipPcs == {"zhead", "zentry", "zdata", "zend"}

\* An archive that was sent to its end is as long as the Content-Length in front of it said, and every
\* entry of its central directory points at that entry's local header (folder_zip_pump.c:165-180, 245,
\* 303): the length is a formula over the metadata and the offsets are the pump's own count, and
\* nothing in the code compares either with what was written.
ZipExact ==
    zip.handle = "released" /\ rc = "ok" /\ pc = "ret" =>
        /\ zip.out = ContentLength(zip.entries)
        /\ Len(zip.at) = Len(zip.entries)
        /\ \A i \in DOMAIN zip.at : zip.at[i] = LocalSums(zip.entries)[i - 1]

\* Whatever call fails, the pump has closed the blob and released DB_app's handle exactly once when it
\* returns (folder_zip_pump.c:201-388, eight exits).
ZipReleasesAll ==
    /\ zip.handle # "twice"
    /\ pc \notin ZipPcs => zip.handle # "open" /\ ~zip.blob
=============================================================================

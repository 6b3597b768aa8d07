----------------------------- MODULE Extraction -----------------------------
(***************************************************************************)
(* The checkout of a repository: downloadTarball (packages/github-app/src/ *)
(* worker/tarball.ts) streams an archive that extractTarball (packages/    *)
(* core/src/checkout/extract.ts) turns into a directory.                   *)
(*                                                                         *)
(* A path is a sequence of segments.  The file system tells the case of    *)
(* letters apart; the map of written paths does not (Fold).  Removing the  *)
(* destination succeeds.                                                   *)
(***************************************************************************)
EXTENDS Absent, Integers, Sequences, FiniteSets

-----------------------------------------------------------------------------
(* How a tar archive is read: TarReader in packages/core/src/checkout/     *)
(* tar.ts.  A stream is a sequence of blocks:                              *)
(*   header    of an entry or of an extension that speaks of the next one  *)
(*   records   the body of a pax extension, which is one block here        *)
(*   name      the body of a GNU extension, one block too                  *)
(*   content   a block of a file's body                                    *)
(*   zero      two of them end the archive                                 *)
(* A block that is read as a header and is none fails its checksum.        *)
CONSTANTS
    Streams,      \* what may arrive: [items, blocks, gzip]
    Block,        \* bytes of a block                       (code: 512)
    MaxPax,       \* bytes of an extension's body           (code: 256 KiB)
    MaxArchive    \* blocks of the decompressed stream      (code: 1 GiB)

\* What arrives is blocks; the sizes they tell are numbers, from the octal
\* digits of a header or the decimal ones of a record.
Sent(s) == {s.blocks[i] : i \in DOMAIN s.blocks}
TarAssumption ==
    /\ Block \in Nat \ {0} /\ MaxPax \in Nat /\ MaxArchive \in Nat /\ None \notin Nat
    /\ \A s \in Streams :
          /\ s.blocks \in Seq(Sent(s))
          /\ \A b \in Sent(s) : /\ b.kind = "header"  => b.size \in Nat
                                /\ b.kind = "records" => b.size \in Nat \cup {None}

VARIABLES
    stream,   \* the one that arrives
    pos,      \* blocks read of it
    ext       \* what extensions said since the last entry

tarVars == <<stream, pos, ext>>

NoExt == [path |-> None, linkpath |-> None, size |-> None, longName |-> None, longLink |-> None]

BlocksOf(bytes) == (bytes + Block - 1) \div Block

Blocks == stream.blocks
Has(n) == pos + n <= Len(Blocks)
Ahead  == Blocks[pos + 1]
Said(a, b) == IF a # None THEN a ELSE b

-----------------------------------------------------------------------------
(* Extensions *)

ExtensionFlags == {"g", "x", "L", "K"}
AtExtension == Has(1) /\ Ahead.kind = "header" /\ Ahead.flag \in ExtensionFlags

\* The body of an extension that is read whole.
Body == Blocks[pos + 2]

IsGlobalOverride == Ahead.flag = "g" /\ {Body.path, Body.linkpath, Body.size} # {None}

ExtensionReadable ==
    /\ Ahead.size <= MaxPax
    /\ Has(2)
    /\ Body.kind = (IF Ahead.flag \in {"g", "x"} THEN "records" ELSE "name")
    /\ ~IsGlobalOverride

\* What is known of the next entry after the extension.
Told ==
    CASE Ahead.flag = "g" -> ext
      [] Ahead.flag = "x" -> [ext EXCEPT !.path = Said(Body.path, @),
                                         !.linkpath = Said(Body.linkpath, @),
                                         !.size = Said(Body.size, @)]
      [] Ahead.flag = "L" -> [ext EXCEPT !.longName = Body.name]
      [] Ahead.flag = "K" -> [ext EXCEPT !.longLink = Body.name]

-----------------------------------------------------------------------------
(* Entries *)

Types == [file |-> "0", directory |-> "5", hardlink |-> "1", symlink |-> "2"]
AtEntry == Has(1) /\ Ahead.kind = "header" /\ Ahead.flag \notin ExtensionFlags

\* A GNU name beats a pax path, and both beat the header; for a link's target
\* pax beats GNU.
EntryName == Said(ext.longName, Said(ext.path, Ahead.prefix \o Ahead.name))
EntryLink == Said(ext.linkpath, Said(ext.longLink, Ahead.link))
EntrySize == Said(ext.size, Ahead.size)

EntryReadable ==
    \E t \in DOMAIN Types :
        /\ Ahead.flag = Types[t]
        /\ t = "file" \/ EntrySize = 0
        /\ Said(ext.longName, Said(ext.path, Ahead.name)) # <<>>   \* without the prefix

Entry ==
    [type |-> CHOOSE t \in DOMAIN Types : Ahead.flag = Types[t],
     name |-> EntryName, link |-> EntryLink, size |-> EntrySize]

\* Slip: what extensions said of an entry holds for the next one too.
SlipAfterEntry == ext

AfterEntry == NoExt

-----------------------------------------------------------------------------
(* The end *)

AtEnd == Has(1) /\ Ahead.kind = "zero"
EndReadable == Has(2) /\ \A i \in pos + 1 .. Len(Blocks) : Blocks[i].kind = "zero"

\* What next() throws an error for.
ArchiveRefused ==
    \/ ~Has(1)
    \/ Has(1) /\ Ahead.kind \notin {"header", "zero"}
    \/ AtExtension /\ ~ExtensionReadable
    \/ AtEntry /\ ~EntryReadable
    \/ AtEnd /\ ~EndReadable

\* The bytes are counted as they arrive, which is before they are read.
TooLarge == Len(Blocks) > MaxArchive

-----------------------------------------------------------------------------
(* The extraction of what is read *)

CONSTANTS
    Fold,         \* a segment without case and composition
    MaxEntries,   \* code: 200 000
    MaxFile,      \* bytes of a file       (code: 256 MiB)
    MaxTotal,     \* bytes of all files    (code: 1 GiB)
    MaxDepth      \* segments of a path    (code: 100)

ExtractionAssumption == {MaxEntries, MaxFile, MaxTotal, MaxDepth} \subseteq Nat

VARIABLES
    extracting,  \* where extractTarball is: begin, next, body, removing, done, failed
    process,     \* "up", or "crashed" by an error nobody listens for
    dest,        \* the destination: absent, occupied by something else, made
    disk,        \* what is in it: path -> [kind, content]
    written,     \* the map of the code: folded path -> type of the entry
    links,       \* summary.links
    count,       \* the other numbers of the summary
    entry,       \* the file being written
    fault        \* the download or the disk failed

extractVars == <<extracting, process, dest, disk, written, links, count, entry, fault>>
archiveVars == <<tarVars, extractVars>>

NoCount == [entries |-> 0, file |-> 0, directory |-> 0, symlink |-> 0, hardlink |-> 0, bytes |-> 0]
NoNodes == <<>>   \* the function with the empty domain

ExtractStarts(s, d) ==
    /\ stream = s /\ pos = 0 /\ ext = NoExt
    /\ extracting = "begin" /\ process = "up" /\ dest = d
    /\ disk = NoNodes /\ written = NoNodes /\ links = {} /\ count = NoCount
    /\ entry = None /\ fault = FALSE
ExtractInit == \E s \in Streams, d \in {"absent", "occupied"} : ExtractStarts(s, d)

-----------------------------------------------------------------------------
(* Paths and files *)

Normal(name) == SelectSeq(name, LAMBDA s : s # ".")
Allowed(name) ==
    /\ \A i \in DOMAIN name : name[i] # ".."
    /\ Normal(name) # <<>> /\ Len(Normal(name)) <= MaxDepth
Key(path) == [i \in DOMAIN path |-> Fold[path[i]]]
Parents(path) == {SubSeq(path, 1, n) : n \in 1 .. Len(path) - 1}

Put(f, x, y) == [z \in DOMAIN f \cup {x} |-> IF z = x THEN y ELSE f[z]]
DirectoryNode == [kind |-> "directory", content |-> <<>>]

\* mkdir with "recursive".
CanMake(paths) == \A p \in paths \cap DOMAIN disk : disk[p].kind = "directory"
Made(paths) == [p \in DOMAIN disk \cup paths |-> IF p \in DOMAIN disk THEN disk[p] ELSE DirectoryNode]

\* open with "wx", and link.
CanCreate(path) == CanMake(Parents(path)) /\ path \notin DOMAIN disk

\* An error reaches the catch, which has still to remove the destination.
Abort ==
    /\ extracting' = "removing" /\ entry' = None
    /\ UNCHANGED <<tarVars, process, dest, disk, written, links, count>>

-----------------------------------------------------------------------------
(* Steps *)

Begin ==
    /\ extracting = "begin"
    /\ \/ dest = "absent" /\ extracting' = "next" /\ dest' = "made"
       \/ dest = "occupied" /\ extracting' = "failed" /\ UNCHANGED dest
    /\ UNCHANGED <<tarVars, process, disk, written, links, count, entry, fault>>

ReadExtension ==
    /\ extracting = "next" /\ AtExtension /\ ExtensionReadable
    /\ ext' = Told /\ pos' = pos + 2
    /\ UNCHANGED <<stream, extractVars>>

FinishArchive ==
    /\ extracting = "next" /\ AtEnd /\ EndReadable /\ ~TooLarge
    /\ extracting' = "done" /\ pos' = Len(Blocks)
    /\ UNCHANGED <<stream, ext, process, dest, disk, written, links, count, entry, fault>>

\* An error of next() or of a body, or the ceiling of the stream.
RefuseArchive ==
    /\ \/ extracting = "next" /\ ArchiveRefused
       \/ extracting = "body" /\ ~Has(1) /\ Len(disk[Normal(entry.name)].content) < BlocksOf(entry.size)
       \/ extracting \in {"next", "body"} /\ TooLarge
    /\ Abort /\ UNCHANGED fault

\* Slip: files are counted once they are written.
SlipFits(e) == e.size <= MaxFile /\ count.bytes <= MaxTotal

Fits(e) == e.size <= MaxFile /\ count.bytes + e.size <= MaxTotal

\* What extractEntry accepts of an entry that was read.
Free(e) ==
    LET key == Key(Normal(e.name))
    IN  key \in DOMAIN written => written[key] = "directory" /\ e.type = "directory"

Acceptable(e) ==
    LET path   == Normal(e.name)
        target == Normal(e.link)
    IN  /\ Allowed(e.name) /\ Free(e)
        /\ CASE e.type = "directory" -> Key(path) \in DOMAIN written
                                           \/ CanMake(Parents(path) \cup {path})
             [] e.type = "file" -> Fits(e) /\ CanCreate(path)
             [] e.type = "symlink" -> e.link # <<>>
             [] e.type = "hardlink" ->
                  /\ Allowed(e.link) /\ CanCreate(path)
                  /\ Key(target) \in DOMAIN written /\ written[Key(target)] = "file"
                  /\ target \in DOMAIN disk /\ disk[target].kind = "file"

AtGoodEntry(type) ==
    extracting = "next" /\ AtEntry /\ EntryReadable /\ Entry.type = type /\ Acceptable(Entry)

RefuseEntry ==
    /\ extracting = "next" /\ AtEntry /\ EntryReadable /\ ~Acceptable(Entry)
    /\ Abort /\ UNCHANGED fault

\* Slip: the entries that went before are counted, and not this one.
SlipCounted(e, newDisk) ==
    LET path == Normal(e.name)
    IN  /\ extracting' = IF count.entries > MaxEntries THEN "removing" ELSE "next"
        /\ disk' = newDisk /\ entry' = None /\ ext' = AfterEntry
        /\ written' = Put(written, Key(path), e.type)
        /\ count' = [count EXCEPT !.entries = @ + 1, !.bytes = @ + e.size]
        /\ pos' = IF e.type = "file" THEN pos ELSE pos + 1
        /\ UNCHANGED <<stream, process, dest, links>>

\* An entry is written, recorded and counted, and the one that is too many is
\* refused only then.
Counted(e, newDisk) ==
    LET path == Normal(e.name)
        new  == Key(path) \notin DOMAIN written
    IN  /\ extracting' = IF count.entries + 1 > MaxEntries THEN "removing" ELSE "next"
        /\ disk' = newDisk /\ entry' = None /\ ext' = AfterEntry
        /\ written' = Put(written, Key(path), e.type)
        /\ count' = [count EXCEPT !.entries = @ + 1, !.bytes = @ + e.size,
                                  ![e.type] = @ + (IF new THEN 1 ELSE 0)]
        /\ links' = IF e.type = "symlink" THEN links \cup {[path |-> path, target |-> e.link]}
                    ELSE links
        /\ pos' = IF e.type = "file" THEN pos ELSE pos + 1
        /\ UNCHANGED <<stream, process, dest>>

ExtractDirectory ==
    /\ AtGoodEntry("directory")
    /\ LET path == Normal(Entry.name)
       IN  Counted(Entry, IF Key(path) \in DOMAIN written THEN disk
                          ELSE Made(Parents(path) \cup {path}))
    /\ UNCHANGED fault

RecordSymlink == AtGoodEntry("symlink") /\ Counted(Entry, disk) /\ UNCHANGED fault

ExtractHardlink ==
    /\ AtGoodEntry("hardlink")
    /\ LET path == Normal(Entry.name)
       IN  Counted(Entry, Put(Made(Parents(path)), path, disk[Normal(Entry.link)]))
    /\ UNCHANGED fault

OpenFile ==
    /\ AtGoodEntry("file")
    /\ LET path == Normal(Entry.name)
       IN  disk' = Put(Made(Parents(path)), path, [kind |-> "file", content |-> <<>>])
    /\ entry' = Entry /\ extracting' = "body" /\ pos' = pos + 1
    /\ UNCHANGED <<stream, ext, process, dest, written, links, count, fault>>

WriteBlock ==
    LET path == Normal(entry.name)
    IN  /\ extracting = "body" /\ Has(1)
        /\ Len(disk[path].content) < BlocksOf(entry.size)
        /\ disk' = [disk EXCEPT ![path].content = Append(@, Ahead)]
        /\ pos' = pos + 1
        /\ UNCHANGED <<stream, ext, extracting, process, dest, written, links, count, entry, fault>>

CloseFile ==
    /\ extracting = "body" /\ Len(disk[Normal(entry.name)].content) = BlocksOf(entry.size)
    /\ Counted(entry, disk) /\ UNCHANGED fault

\* Slip: what is written stays when an entry is refused.
SlipRemoveDestination ==
    /\ extracting = "removing" /\ extracting' = "failed"
    /\ UNCHANGED <<tarVars, process, dest, disk, written, links, count, entry, fault>>

\* The catch removes the destination and throws the error on.
RemoveDestination ==
    /\ extracting = "removing" /\ extracting' = "failed"
    /\ dest' = "absent" /\ disk' = NoNodes
    /\ UNCHANGED <<tarVars, process, written, links, count, entry, fault>>

\* A call of the file system fails: the first ones are outside the try, and the
\* destination may have been made and not be listed.
DiskFails ==
    /\ fault' = TRUE
    /\ \/ extracting \in {"next", "body"} /\ Abort
       \/ /\ extracting = "begin" /\ extracting' = "failed"
          /\ dest' \in {dest} \cup (IF dest = "absent" THEN {"made"} ELSE {})
          /\ UNCHANGED <<tarVars, process, disk, written, links, count, entry>>

\* The download is refused, cut off by its deadline or its byte limit, or the
\* connection breaks.  Before maybeGunzip has the first bytes, and for an
\* archive that is not compressed, the reader gets the error.
DownloadFails ==
    /\ extracting \in {"next", "body"} /\ (~stream.gzip \/ pos = 0)
    /\ fault' = TRUE
    /\ Abort

\* Later it is an error of the stream that is piped into the decompressor, and
\* nobody listens to that one, also when the extraction has given up already.
PipedDownloadFails ==
    /\ extracting \in {"next", "body", "removing", "failed"} /\ dest # "occupied"
    /\ stream.gzip /\ pos < Len(Blocks)
    /\ process' = "crashed" /\ fault' = TRUE
    /\ UNCHANGED <<tarVars, extracting, dest, disk, written, links, count, entry>>

ExtractStep ==
    \/ Begin \/ ReadExtension \/ FinishArchive \/ RefuseArchive \/ RefuseEntry
    \/ ExtractDirectory \/ RecordSymlink \/ ExtractHardlink
    \/ OpenFile \/ WriteBlock \/ CloseFile \/ RemoveDestination

ExtractNext == process = "up" /\ (ExtractStep \/ DiskFails \/ DownloadFails \/ PipedDownloadFails)

ExtractSpec == ExtractInit /\ [][ExtractNext]_archiveVars

-----------------------------------------------------------------------------
(* Properties.  An item of stream.items is what the archive was made of:    *)
(* [type, name, link, size, how], see module CodeloadArchive.               *)

Items == stream.items
Index == DOMAIN Items
Rel(i) == Normal(Items[i].name)

\* The items that are on the disk.  A directory that differs from an earlier
\* one in case alone is not made for its own sake.
OnDisk ==
    {i \in Index : /\ Items[i].type # "symlink"
                   /\ Items[i].type = "directory" => \A j \in 1 .. i - 1 : Key(Rel(j)) # Key(Rel(i))}

\* The bytes of the files among the first n items.
BytesUpTo[n \in Nat] ==
    IF n = 0 THEN 0
    ELSE BytesUpTo[n - 1] + (IF Items[n].type = "file" THEN Items[n].size ELSE 0)

\* A tree that can be checked out, within the limits.
IsTree ==
    /\ \A i \in Index :
          /\ Items[i].type \in DOMAIN Types /\ Items[i].how # "named globally"
          /\ Items[i].type # "file" => Items[i].size = 0
          /\ Allowed(Items[i].name)
          /\ Items[i].how \in {"pax", "gnu"} => Len(Items[i].name) <= MaxPax
          /\ Items[i].how = "gnu" => Len(Items[i].link) <= MaxPax
          /\ Items[i].type = "symlink" => Items[i].link # <<>>
          /\ Items[i].type = "hardlink" =>
               \E j \in 1 .. i - 1 :
                   Items[j].type = "file" /\ Rel(j) = Normal(Items[i].link)
                                          /\ Allowed(Items[i].link)
    /\ \A i, j \in Index : i < j /\ Key(Rel(i)) = Key(Rel(j)) =>
          Items[i].type = "directory" /\ Items[j].type = "directory"
    /\ \A i, j \in OnDisk : Rel(i) \in Parents(Rel(j)) => Items[i].type = "directory"
    /\ \A i \in Index : Items[i].type = "file" => Items[i].size <= MaxFile
    /\ BytesUpTo[Len(Items)] <= MaxTotal
    /\ Len(Items) <= MaxEntries
    /\ ~TooLarge

ContentOf(i) == [b \in 1 .. BlocksOf(Items[i].size) |-> [kind |-> "content", of |-> Items[i].name, part |-> b]]

\* The node the items put at a path.
NodeAt(path) ==
    LET here == {i \in OnDisk : Rel(i) = path /\ Items[i].type # "directory"}
    IN  IF here = {} THEN DirectoryNode
        ELSE LET i == CHOOSE i \in here : TRUE
                 j == IF Items[i].type = "file" THEN i
                      ELSE CHOOSE j \in Index : Items[j].type = "file"
                                               /\ Rel(j) = Normal(Items[i].link)
             IN  [kind |-> "file", content |-> ContentOf(j)]

\* The destination holds exactly the tree the archive was made of, whatever
\* extensions name its entries, and an archive is refused only if it was cut
\* short, is no tree that can be checked out, or exceeds a limit; no path is ever
\* too deep.
TreeIsTheArchive ==
    /\ extracting = "done" =>
         /\ IsTree /\ ~stream.cut
         /\ DOMAIN disk = UNION {{Rel(i)} \cup Parents(Rel(i)) : i \in OnDisk}
         /\ \A path \in DOMAIN disk : disk[path] = NodeAt(path)
         /\ links = {[path |-> Rel(i), target |-> Items[i].link] :
                        i \in {k \in Index : Items[k].type = "symlink"}}
         /\ count.bytes = BytesUpTo[Len(Items)] /\ count.entries = Len(Items)
    /\ extracting = "failed" /\ ~fault /\ dest # "occupied" => stream.cut \/ ~IsTree
    /\ \A path \in DOMAIN disk : Len(path) <= MaxDepth

\* Once extractTarball has thrown, of whatever entry, at whatever byte, nothing
\* of the archive is left: a destination that could be listed is gone, one that
\* could not is empty, and one that was not its own is as it was
\* (extract.ts:162-165, 199-202).  It says nothing of a process that the error of
\* a piped download ends (DownloadFailureIsReported): that one leaves what it wrote.
AllOrNothing ==
    /\ extracting = "failed" => disk = NoNodes /\ (dest = "made" => fault /\ pos = 0)
    /\ extracting # "begin" /\ dest = "occupied" => extracting = "failed"

\* Until it has thrown, every entry it has recorded is on the disk with its kind,
\* a link aside, and no file is there but those and the one being written, also
\* when the process ends in the middle (extract.ts:231-297).
WrittenIsOnDisk ==
    extracting # "failed" =>
        /\ \A key \in DOMAIN written : written[key] # "symlink" =>
              \E p \in DOMAIN disk :
                  Key(p) = key /\ disk[p].kind = (IF written[key] = "directory" THEN "directory" ELSE "file")
        /\ \A p \in DOMAIN disk : disk[p].kind = "file" =>
              \/ extracting = "removing"
              \/ extracting = "body" /\ p = Normal(entry.name)
              \/ Key(p) \in DOMAIN written /\ written[Key(p)] \in {"file", "hardlink"}

\* No byte is on the disk beyond the limits of a file and of them all, also when
\* a size came with an extension: files are measured before they are opened.
\* Entries are counted once they are written (extract.ts:188-190), so one may
\* be there beyond their number, and then the extraction goes no further.
SizesOnDisk ==
    LET files == {p \in DOMAIN disk : disk[p].kind = "file"}
        goesOn == extracting \in {"next", "body", "done"}
    IN  /\ count.bytes + (IF entry # None THEN entry.size ELSE 0) <= MaxTotal
        /\ \A p \in files : Len(disk[p].content) <= BlocksOf(MaxFile)
        /\ Cardinality(DOMAIN written) <= MaxEntries + (IF goesOn THEN 0 ELSE 1)

\* An extraction that has thrown has left nothing; before that the destination
\* holds what was accepted and nothing else, within the limits, wherever the
\* archive, the download or the disk fails (extract.ts).  That a finished one
\* has accepted the whole archive is TreeIsTheArchive.
ArchiveOrNothing == AllOrNothing /\ WrittenIsOnDisk /\ SizesOnDisk

\* A download that fails fails its job, with a reason for the check run: "the
\* repository archive is larger than GhostDeps will download", "downloading the
\* repository archive took too long" (analyse-job.ts:363-372).  The error of a
\* piped download has no listener and ends the process instead.
DownloadFailureIsReported == fault => extracting \in {"removing", "failed"}
=============================================================================

------------------------------- MODULE Archive -------------------------------
(***************************************************************************)
(* The file of a backup (services/backup.ts): an uncompressed ZIP archive, *)
(* written from its entries and read back by walking the local headers.    *)
(* No state; Backup says when it is written, cut off and read.             *)
(*                                                                         *)
(* An entry is its name, the length of that name and the size of what it   *)
(* holds.  A file is the first so many bytes of the archive of its         *)
(* entries; what some of them hold may have been damaged since.            *)
(***************************************************************************)
EXTENDS Integers, FiniteSets, Sequences, SequencesExt, Totals

LocalHeader == 30
DirectoryHeader == 46
EndRecord == 22

(* The order of createBackup: the data, the audio files, the manifest.     *)
Entries(data, audio, manifest) ==
  <<[name |-> "data.json", nameLen |-> 9, size |-> data]>>
    \o audio
    \o <<[name |-> "manifest.json", nameLen |-> 13, size |-> manifest]>>

(* buildZip: how far the archive goes after so many entries, then the      *)
(* directory and the end.                                                  *)
EntrySize(e) == LocalHeader + e.nameLen + e.size
Offset(es) == Totals([i \in DOMAIN es |-> EntrySize(es[i])])

DirectorySize(es) ==
  Total([i \in DOMAIN es |-> DirectoryHeader + es[i].nameLen])

ZipSize(es) == Offset(es)[Len(es)] + DirectorySize(es) + EndRecord

ZipFile(es) == [entries |-> es, length |-> ZipSize(es), damaged |-> {}]
Cut(es, n) == [ZipFile(es) EXCEPT !.length = n]

-----------------------------------------------------------------------------
(* extractFromZip: what is found under a name, as far as the file goes.    *)
Missing == [entry |-> 0, size |-> 0]

Extract(file, name) ==
  LET es == file.entries
      at == Offset(es)
      Named(i) == at[i - 1] + LocalHeader + es[i].nameLen
      hits == {i \in DOMAIN es :
                 /\ at[i - 1] < file.length - LocalHeader
                 /\ Named(i) <= file.length
                 /\ es[i].name = name}
      first == CHOOSE i \in hits : \A j \in hits : i <= j
      rest == file.length - Named(first)
  IN  IF hits = {} THEN Missing
      ELSE [entry |-> first,
            size |-> IF es[first].size <= rest THEN es[first].size ELSE rest]

(* What was found is what was written; of the manifest JSON.parse tells,   *)
(* of the data the checksum the manifest has.                              *)
Intact(file, found) ==
  /\ found # Missing /\ found.entry \notin file.damaged
  /\ found.size = file.entries[found.entry].size

(* previewRestore looks at the manifest only.                              *)
Previews(file) == Intact(file, Extract(file, "manifest.json"))

(* restoreBackup *)
Loads(file) == /\ Intact(file, Extract(file, "manifest.json"))
               /\ Intact(file, Extract(file, "data.json"))

-----------------------------------------------------------------------------
(* Small archives: with no, one or two audio files, possibly empty ones.   *)
Audio == {[name |-> n, nameLen |-> 8, size |-> s] :
            n \in {"audio/a", "audio/b"}, s \in {0, 2}}
Samples == {Entries(d, a, m) : d \in {1, 40}, m \in {1, 3},
                               a \in UNION {[1 .. n -> Audio] : n \in 0 .. 2}}

(* Whatever is put into an archive is found under its name, the first of   *)
(* that name and all of it.                                                *)
ASSUME ZipReadsBack ==
  \A es \in Samples : \A i \in DOMAIN es :
    (\A j \in 1 .. i - 1 : es[j].name # es[i].name)
      => Extract(ZipFile(es), es[i].name) = [entry |-> i, size |-> es[i].size]

(* A file that was cut off, wherever, is restored from exactly if the cut  *)
(* is behind all of its entries, and then the data is whole; the preview   *)
(* says the same.                                                          *)
ASSUME CutIsRefused ==
  \A es \in Samples : \A n \in 0 .. ZipSize(es) :
    LET whole == n >= Offset(es)[Len(es)]
    IN  Loads(Cut(es, n)) = whole /\ Previews(Cut(es, n)) = whole

(* Damaged data is never restored, although its preview is shown.          *)
ASSUME DamageIsRefused ==
  \A es \in Samples :
    LET file == [ZipFile(es) EXCEPT !.damaged = {1}]
    IN  Previews(file) /\ ~Loads(file)
=============================================================================

---------------------------- MODULE MihomoDownload ----------------------------
(***************************************************************************)
(* DownloadLatest (internal/mihomo/managed.go): the Mihomo binary is       *)
(* downloaded once, and taken from the cache ever after.  The process may  *)
(* be killed at any step; what it had in memory is gone then, and its      *)
(* temporary file is never looked at again.                                *)
(*                                                                         *)
(* A binary has the size it was published with, and the part of it that is *)
(* there.                                                                  *)
(***************************************************************************)
EXTENDS Integers

CONSTANTS
  MaxSize,     \* 100 MB
  Sizes,       \* sizes of published archives, and of the binaries in them
  Nothing      \* no binary, no list

ASSUME DownloadAssumption ==
  /\ MaxSize \in Nat /\ Sizes \subseteq Nat \ {0}
  /\ Nothing \notin Nat

VARIABLES
  stage,       \* of the service: inactive waiting wrapper stat write rename fetch running
  binary,      \* the extracted binary in memory
  cache        \* the file at binaryPath

downloadVars == <<stage, binary, cache>>

Assets == [archive : Sizes, binary : Sizes]

Binaries == [size : Sizes, part : 0..MaxSize]

Whole(file) == file.part = file.size

\* io.LimitReader ends the data without an error.
Limited(size) == IF size > MaxSize THEN MaxSize ELSE size

\* A zip archive that was cut cannot be opened.  A gzip archive that was cut can, and
\* gives an error only where it breaks off: not if the limit on the extracted data is
\* reached before.
Extracts(asset) == Limited(asset.archive) = asset.archive \/ asset.binary >= MaxSize

Extracted(asset) == [size |-> asset.binary, part |-> Limited(asset.binary)]

DownloadInit == binary = Nothing /\ cache = Nothing

FromCache ==
  /\ stage = "stat" /\ cache # Nothing
  /\ stage' = "fetch"
  /\ UNCHANGED <<binary, cache>>

Download(asset) ==
  /\ stage = "stat" /\ cache = Nothing /\ Extracts(asset)
  /\ stage' = "write" /\ binary' = Extracted(asset)
  /\ UNCHANGED cache

\* Mutant of Write: the binary is written to its final place.
WriteInPlace ==
  /\ stage = "write" /\ stage' = "rename"
  /\ cache' = [binary EXCEPT !.part = 0]
  /\ UNCHANGED binary

\* A temporary file in the cache's directory.
Write ==
  /\ stage = "write" /\ stage' = "rename"
  /\ UNCHANGED <<binary, cache>>

Rename ==
  /\ stage = "rename" /\ stage' = "fetch"
  /\ cache' = binary /\ binary' = Nothing

DownloadNext ==
  FromCache \/ (\E asset \in Assets : Download(asset)) \/ Write \/ Rename

=============================================================================

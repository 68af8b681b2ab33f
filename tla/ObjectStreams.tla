---------------------------- MODULE ObjectStreams ----------------------------
(* The requests that carry objects, and the sets that objects are spread    *)
(* over: an archive (ZipStream), a download of one object (Download), a form *)
(* of uploads (UploadForm) and the calculation of erasure sets               *)
(* (ErasureSets).  They share nothing: each is a request of its own, or a    *)
(* calculation.                                                              *)
EXTENDS ZipStream

CONSTANTS MaxInt, Named, MaxRanges, MaxParts, Lengths, MaxArgs, MaxPatterns

VARIABLES
  size, header, phase, status, offset, length, sent, failed,
  form, broken, partsRead, stored, reply,
  args, sets

Get == INSTANCE Download WITH asked <- header
Form == INSTANCE UploadForm WITH read <- partsRead, answer <- reply
Sets == INSTANCE ErasureSets

ASSUME DownloadAssumption == Get!Widths
ASSUME FormAssumption == MaxParts \in Nat
ASSUME SetsAssumption == Sets!Counts

get == <<size, header, phase, status, offset, length, sent, failed>>
put == <<form, broken, partsRead, stored, reply>>
set == <<args, sets>>

(* What is sent of a range is what the header names, to the byte.           *)
ServedAsNamed == Get!ServedAsNamed

(* A form that is answered as a success came whole and was put whole.       *)
SuccessIsWhole == Form!SuccessIsWhole

(* The sets hold every drive, in one allowed size.                          *)
SetsFit == Sets!SetsFit
=============================================================================

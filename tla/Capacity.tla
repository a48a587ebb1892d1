------------------------------ MODULE Capacity ------------------------------
(***************************************************************************)
(* extractStorage of src/driver/controller.go: the size in bytes a volume  *)
(* is created with, or expanded to, for the capacity range of a request.   *)
(***************************************************************************)
EXTENDS Integers

CONSTANTS
    giB,                        \* bytes of a GiB
    minimumVolumeSizeInBytes,
    maximumVolumeSizeInBytes,
    defaultVolumeSizeInBytes

ASSUME CapacityAssumption ==
    /\ giB \in Nat \ {0}
    /\ minimumVolumeSizeInBytes \in Nat \ {0}
    /\ maximumVolumeSizeInBytes \in Nat
    /\ defaultVolumeSizeInBytes \in minimumVolumeSizeInBytes..maximumVolumeSizeInBytes

\* No volume has this size: extractStorage returned an error.
OutOfRange == -1

\* A field of the capacity range that is zero or negative is not set; a
\* missing capacity range is one with both fields zero.
isSet(bytes) == 0 < bytes

\* Mutant: the largest supported size is refused, too.
RefusedAtMaximum(requiredBytes, limitBytes) ==
    \/ isSet(requiredBytes) /\ isSet(limitBytes) /\ limitBytes < requiredBytes
    \/ isSet(limitBytes) /\ limitBytes < minimumVolumeSizeInBytes
    \/ isSet(requiredBytes) /\ requiredBytes >= maximumVolumeSizeInBytes
    \/ ~isSet(requiredBytes) /\ limitBytes > maximumVolumeSizeInBytes

\* The conditions under which extractStorage refuses a range.  The one on a
\* required size below the minimum comes before the one on the limit.
Refused(requiredBytes, limitBytes) ==
    \/ isSet(requiredBytes) /\ isSet(limitBytes) /\ limitBytes < requiredBytes
    \/ isSet(limitBytes) /\ limitBytes < minimumVolumeSizeInBytes
    \/ isSet(requiredBytes) /\ requiredBytes > maximumVolumeSizeInBytes
    \/ ~isSet(requiredBytes) /\ limitBytes > maximumVolumeSizeInBytes

\* A range without upper limit is raised to the minimum.
Raised(requiredBytes, limitBytes) ==
    /\ isSet(requiredBytes) /\ ~isSet(limitBytes)
    /\ requiredBytes < minimumVolumeSizeInBytes

extractStorage(requiredBytes, limitBytes) ==
    CASE ~isSet(requiredBytes) /\ ~isSet(limitBytes) -> defaultVolumeSizeInBytes
      [] Raised(requiredBytes, limitBytes) -> minimumVolumeSizeInBytes
      [] Refused(requiredBytes, limitBytes) -> OutOfRange
      [] ~isSet(requiredBytes) /\ isSet(limitBytes)
            /\ ~Refused(requiredBytes, limitBytes) -> limitBytes
      [] OTHER -> requiredBytes

\* A supported size fits the range.
Satisfiable(requiredBytes, limitBytes) ==
    \E size \in minimumVolumeSizeInBytes..maximumVolumeSizeInBytes :
        /\ isSet(requiredBytes) => requiredBytes <= size
        /\ isSet(limitBytes) => size <= limitBytes

\* What the CSI specification asks of the size chosen for a range.
Fits(size, requiredBytes, limitBytes) ==
    /\ size <= maximumVolumeSizeInBytes
    /\ isSet(requiredBytes) => requiredBytes <= size
    /\ isSet(limitBytes) => size <= limitBytes

=============================================================================

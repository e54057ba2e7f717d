------------------------------ MODULE Keychain ------------------------------
(***************************************************************************)
(* The operating system's keychain as os.rs sees it: one slot, and the     *)
(* errors of the keyring library brought down to "the slot is empty" or    *)
(* "the backend failed".  An error taken for an empty slot would make      *)
(* fetch_or_create write a new key over the one the vault is sealed with.  *)
(***************************************************************************)

NoKey == 0   \* nothing in the slot

\* The variants of keyring::Error; "other" is one of a later version.
KeyringErrors == {"NoEntry", "PlatformFailure", "NoStorageAccess", "BadEncoding",
                  "TooLong", "Invalid", "Ambiguous", "other"}

\* Faulty variant: a locked keychain passes for an empty one.
MapKeyringErrorCollapses(e) ==
    IF e \in {"NoEntry", "NoStorageAccess"} THEN "Empty" ELSE "Backend"

MapKeyringError(e) == IF e = "NoEntry" THEN "Empty" ELSE "Backend"

\* What can go wrong in one call: nothing, building the handle (which
\* touches no storage), or an error of the library.
CallFaults == {"none", "handle"} \cup (KeyringErrors \ {"NoEntry"})

\* A stored entry may also have another length than a key.
FetchFaults(slot) == IF slot = NoKey THEN CallFaults ELSE CallFaults \cup {"length"}

\* fetch: entry_for, get_secret, the length check.  A handle that cannot be
\* built never counts as an empty slot.
Fetch(slot, fault) ==
    CASE fault = "handle"               -> "Backend"
      [] fault = "length"               -> "MalformedKey"
      [] fault = "none" /\ slot = NoKey -> MapKeyringError("NoEntry")
      [] fault = "none" /\ slot # NoKey -> "Key"
      [] OTHER                          -> MapKeyringError(fault)

\* set_secret and what store makes of it: it overwrites, and no error means
\* an empty slot.
Store(fault) == IF fault = "none" THEN "Stored" ELSE "Backend"

=============================================================================

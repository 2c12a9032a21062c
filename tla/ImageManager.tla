---------------------------- MODULE ImageManager ----------------------------
(***************************************************************************)
(* ImageManager (src/image_manager.rs): one slot per kind of ELF image,    *)
(* each holding the image, the presigned URL it can be fetched from, and   *)
(* the time from which that URL is to be made anew.                        *)
(*                                                                         *)
(* store_and_upload_image reads the slot, uploads, and writes the slot,    *)
(* with an await before each and no lock across them, so each is a step of *)
(* its own.  A URL is identified by the time it was made at.  Time is in   *)
(* any unit.                                                               *)
(***************************************************************************)
EXTENDS Naturals

CONSTANTS
    Images,      \* ELF images; an image id is a function of the image
    Uploaders,   \* POST /upload-image handlers
    Refresher,   \* the refresh of the prover, which uploads the images again
    Expiry,      \* how long a presigned URL is valid (X-Amz-Expires)
    Buffer,      \* 120 s: how long before that it is made anew
    None         \* nothing there

Types == {"batch", "aggregation"}
Callers == Uploaders \union {Refresher}

Infos == [image : Images, minted : Nat, refreshAt : Nat]

\* A call of store_and_upload_image that uploads; minted once it has its URL.
Calls == [type : Types, image : Images, minted : Nat \union {None}]

ASSUME DurationsAssumption == Expiry \in Nat /\ Buffer \in Nat
ASSUME NoneAssumption == None \notin Nat \union Infos \union Calls \union Images

VARIABLES
    now,         \* the clock, SystemTime and Instant alike
    slots,       \* batch_image and aggregation_image
    calls        \* the uploads under way, by caller

imageVars == <<slots, calls>>

ImageType ==
    /\ now \in Nat
    /\ slots \in [Types -> Infos \union {None}]
    /\ calls \in [Callers -> Calls \union {None}]

ImageInit ==
    /\ now = 0
    /\ slots = [t \in Types |-> None]
    /\ calls = [c \in Callers |-> None]

\* The image is there, and its URL not yet due.
Reusable(t, i) == slots[t] # None /\ slots[t].image = i /\ now < slots[t].refreshAt

StartUpload(c, t, i) ==
    /\ ~ Reusable(t, i)
    /\ calls' = [calls EXCEPT ![c] = [type |-> t, image |-> i, minted |-> None]]
    /\ UNCHANGED slots

\* upload_program: the storage provider makes the URL.
Mint(c) ==
    /\ calls[c] # None /\ calls[c].minted = None
    /\ calls' = [calls EXCEPT ![c].minted = now]
    /\ UNCHANGED slots

\* Fault: no buffer before the expiry.
FaultyValidFor == Expiry

\* saturating_sub
ValidFor == IF Expiry > Buffer THEN Expiry - Buffer ELSE 0

\* Fault: the slot is written before the URL is there.
FaultyKeep(c) ==
    /\ calls[c] # None
    /\ slots' = [slots EXCEPT ![calls[c].type] =
          [image |-> calls[c].image, minted |-> calls[c].minted, refreshAt |-> now + ValidFor]]
    /\ calls' = [calls EXCEPT ![c] = None]

\* upload_with_refresh_meta returns and the slot is written, whatever is in it.
Keep(c) ==
    /\ calls[c] # None /\ calls[c].minted # None
    /\ slots' = [slots EXCEPT ![calls[c].type] =
          [image |-> calls[c].image, minted |-> calls[c].minted, refreshAt |-> now + ValidFor]]
    /\ calls' = [calls EXCEPT ![c] = None]

\* The upload fails, or its caller is dropped.
GiveUp(c) ==
    /\ calls' = [calls EXCEPT ![c] = None]
    /\ UNCHANGED slots
=============================================================================

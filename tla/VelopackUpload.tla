--------------------------- MODULE VelopackUpload ---------------------------
(***************************************************************************)
(* The card that uploads a batch of Velopack packages: it inspects the     *)
(* files, matches them with a signing bundle and with the artifacts the    *)
(* server has, and uploads what is missing, full packages before the       *)
(* deltas that start from one.  Each upload is a ticket, a transfer and a  *)
(* completion, in which the server verifies what it was sent.              *)
(*                                                                         *)
(* The card is mounted anew when the administrator turns to the advanced   *)
(* form and back; an upload that was under way goes on, unseen.  Packages  *)
(* are of one runtime here, and their names differ.                        *)
(***************************************************************************)
EXTENDS Integers, Sequences, FiniteSets, SequencesExt

CONSTANTS Files,      \* packages on the administrator's disk
          Kind,       \* full or delta, by the name of the file
          ReleaseOf,  \* the version in the NuSpec, a number
          Family,     \* its package id and channel
          Selections, \* the choices of files, each a sequence
          Bundles,    \* signing bundles: the files each has the right signature of
          MaxUploads, \* bound: how often "Upload and verify all" is pressed
          None

ASSUME FilesAssumption ==
    /\ IsFiniteSet(Files)
    /\ Kind \in [Files -> {"full", "delta"}]
    /\ ReleaseOf \in [Files -> Nat \ {0}]
    /\ \A chosen \in Selections : chosen \in Seq(Files)
    /\ \A signed \in Bundles : signed \subseteq Files
ASSUME UploadsAssumption == MaxUploads \in Nat \ {0}

VARIABLES
    artifacts, \* server: what it has of each identity, or None
    inventory, \* the list of artifacts the card has, None before it arrived
    card,      \* how often the card was mounted
    packages,  \* the files chosen: what is known of each and how its upload stands
    overrides, \* the delta sources chosen by hand
    bundle,    \* the signing bundle read last, or None
    reading,   \* bundles that are being read
    busy,      \* of the card: "", "analyzing" or "uploading"
    loops,     \* uploadAll(), by the click that started it
    begun,     \* identities a ticket was asked for
    proved     \* identity and file of each artifact that ever was verified

picked == <<packages, overrides, bundle, reading, busy>>
vars == <<artifacts, inventory, card, picked, loops, begun, proved>>

Uploads == 1 .. MaxUploads
Releases == {ReleaseOf[file] : file \in Files}
\* Version, kind and, of a delta, the version it starts from.
Identities ==
    {<<"full", v, 0>> : v \in Releases} \cup
    {<<"delta", v, from>> : v \in Releases, from \in Releases \cup {0}}
Full(v) == <<"full", v, 0>>

\* What the server has of an identity: the file is the one of the ticket.
Artifact == [status : {"uploading", "verified", "rejected", "archived"}, file : Files]

ASSUME NoneIsNothing == None \notin Artifact

Verified(list, identity) == list[identity] # None /\ list[identity].status = "verified"

NoneYet == [identity \in Identities |-> None]
Known == IF inventory = None THEN NoneYet ELSE inventory

-----------------------------------------------------------------------------
\* preparePackages()

Chosen == {item.file : item \in ToSet(packages)}
Item(file) == CHOOSE item \in ToSet(packages) : item.file = file
IsRead(file) == Item(file).metadata = "read"

\* collectDeltaSourceVersions: the older full packages of the batch, uploaded
\* or not, and those the server verified.
SourceVersions(file) ==
    IF Kind[file] = "full" THEN {}
    ELSE {v \in Releases :
             /\ v < ReleaseOf[file]
             /\ \/ \E other \in Chosen :
                      Kind[other] = "full" /\ IsRead(other) /\ ReleaseOf[other] = v
                \/ Verified(Known, Full(v))}

Newest(versions) == CHOOSE v \in versions : \A w \in versions : w <= v

DeltaFrom(file) ==
    LET sources == SourceVersions(file) IN
    CASE overrides[file] \in sources -> overrides[file]
      [] overrides[file] \notin sources /\ sources # {} -> Newest(sources)
      [] OTHER -> 0

Identity(file) == <<Kind[file], ReleaseOf[file], DeltaFrom(file)>>
Holder(file) == Known[Identity(file)]

ExistingArtifact(file) ==
    IsRead(file) /\ Verified(Known, Identity(file)) /\ Holder(file).file = file

Duplicate(file) ==
    \E other \in Chosen \ {file} :
        /\ IsRead(other)
        /\ ReleaseOf[other] = ReleaseOf[file]
        /\ Kind[other] = Kind[file]

\* Of another package id or channel than the first file that was read.
Stranger(file) ==
    \E i \in 1 .. Len(packages) :
        /\ packages[i].metadata = "read"
        /\ \A j \in 1 .. i - 1 : packages[j].metadata # "read"
        /\ Family[packages[i].file] # Family[file]

Blocked(file) ==
    /\ ~ExistingArtifact(file)
    /\ \/ ~IsRead(file)
       \/ Duplicate(file)
       \/ Stranger(file)
       \/ bundle = None
       \/ file \notin bundle
       \/ Holder(file) # None
       \/ Kind[file] = "delta" /\ DeltaFrom(file) = 0

Uploadable ==
    {file \in Chosen :
        ~Blocked(file) /\ ~ExistingArtifact(file) /\ Item(file).operation # "verified"}

Ready ==
    /\ busy = ""
    /\ bundle # None
    /\ \A file \in Chosen : ~Blocked(file)
    /\ Uploadable # {}

\* What a row says of its package.
PackageState(item) ==
    CASE item.operation = "uploading" -> "Uploading"
      [] item.operation = "verified" -> "Verified"
      [] item.operation = "failed" -> "Failed"
      [] item.operation = "idle" /\ ExistingArtifact(item.file) -> "Already verified"
      [] item.operation = "idle" /\ IsRead(item.file) /\ ~Blocked(item.file)
            /\ ~ExistingArtifact(item.file) -> "Ready"
      [] OTHER -> "Needs attention"

-----------------------------------------------------------------------------
\* The card.

NoLoop == [card |-> 0, queue |-> <<>>, step |-> "none", full |-> {}]

Empty ==
    /\ packages' = <<>>
    /\ overrides' = [file \in Files |-> 0]
    /\ bundle' = None
    /\ busy' = ""

\* The server may have the artifacts of some packages already.
Init ==
    /\ artifacts \in {[identity \in Identities |->
                          IF \E file \in had : identity = Full(ReleaseOf[file])
                          THEN [status |-> "verified",
                                file |-> CHOOSE file \in had : identity = Full(ReleaseOf[file])]
                          ELSE None] : had \in SUBSET {file \in Files : Kind[file] = "full"}}
    /\ inventory = None
    /\ card = 1
    /\ packages = <<>>
    /\ overrides = [file \in Files |-> 0]
    /\ bundle = None
    /\ reading = {}
    /\ busy = ""
    /\ loops = [u \in Uploads |-> NoLoop]
    /\ begun = {}
    /\ proved = {<<identity, artifacts[identity].file>> :
                    identity \in {i \in Identities : artifacts[i] # None}}

\* SWR: the list arrives, now and again.
InventoryArrives ==
    /\ inventory # artifacts
    /\ inventory' = artifacts
    /\ UNCHANGED <<artifacts, card, picked, loops, begun, proved>>

ChoosePackages(chosen) ==
    /\ busy = ""
    /\ packages' = [i \in 1 .. Len(chosen) |->
                       [file |-> chosen[i], metadata |-> "waiting", operation |-> "idle"]]
    /\ overrides' = [file \in Files |-> 0]
    /\ busy' = IF chosen = <<>> THEN "" ELSE "analyzing"
    /\ UNCHANGED <<artifacts, inventory, card, bundle, reading, loops, begun, proved>>

\* inspectVelopackPackage and sha256Hex of the next file: either may throw.
Inspect ==
    /\ busy = "analyzing"
    /\ \E i \in 1 .. Len(packages) :
          /\ packages[i].metadata = "waiting"
          /\ \A j \in 1 .. i - 1 : packages[j].metadata # "waiting"
          /\ \E metadata \in {"read", "bad"} :
                packages' = [packages EXCEPT ![i].metadata = metadata]
          /\ busy' = IF i = Len(packages) THEN "" ELSE busy
    /\ UNCHANGED <<artifacts, inventory, card, overrides, bundle, reading, loops, begun, proved>>

ChooseSigningBundle(signed) ==
    /\ busy # "uploading"
    /\ bundle' = None
    /\ reading' = reading \cup {signed}
    /\ UNCHANGED <<artifacts, inventory, card, packages, overrides, busy, loops, begun, proved>>

\* A bundle was read, the one chosen last or one before it; or it is none.
BundleRead(signed) ==
    /\ signed \in reading
    /\ reading' = reading \ {signed}
    /\ bundle' \in {bundle, signed}
    /\ UNCHANGED <<artifacts, inventory, card, packages, overrides, busy, loops, begun, proved>>

\* The selector of a row stays enabled until the row's own upload begins.
ChooseDeltaSource(file) ==
    /\ file \in Chosen
    /\ Kind[file] = "delta"
    /\ IsRead(file)
    /\ Item(file).operation \notin {"uploading", "verified"}
    /\ \E v \in SourceVersions(file) :
          v # overrides[file] /\ overrides' = [overrides EXCEPT ![file] = v]
    /\ UNCHANGED <<artifacts, inventory, card, packages, bundle, reading, busy, loops, begun, proved>>

Reset ==
    /\ busy = ""
    /\ packages # <<>>
    /\ Empty
    /\ UNCHANGED <<artifacts, inventory, card, reading, loops, begun, proved>>

\* The administrator turns to the advanced form and back, while an upload of
\* the card is under way or after it.
Remount ==
    /\ card < MaxUploads
    /\ \E u \in Uploads : loops[u].card = card
    /\ card' = card + 1
    /\ Empty
    /\ reading' = {}
    /\ UNCHANGED <<artifacts, inventory, loops, begun, proved>>

-----------------------------------------------------------------------------
\* uploadAll()

UploadsFirst(left, right) ==
    IF Kind[left] # Kind[right] THEN Kind[left] = "full"
                                ELSE ReleaseOf[left] < ReleaseOf[right]

\* Packages that would tie are duplicates, and block the upload.
Ordered(ordered) ==
    \A j \in 1 .. Len(ordered) : \A i \in 1 .. j - 1 : UploadsFirst(ordered[i], ordered[j])

Queued(ordered) ==
    [i \in 1 .. Len(ordered) |-> [file |-> ordered[i], from |-> DeltaFrom(ordered[i])]]

UploadAll(u) ==
    /\ loops[u] = NoLoop
    /\ \A v \in 1 .. u - 1 : loops[v] # NoLoop
    /\ Ready
    /\ \E ordered \in SetToSeqs(Uploadable) :
          /\ Ordered(ordered)
          /\ loops' = [loops EXCEPT ![u] =
                          [card |-> card, queue |-> Queued(ordered), step |-> "next",
                           full |-> {v \in Releases : Verified(Known, Full(v))}]]
    /\ busy' = "uploading"
    /\ UNCHANGED <<artifacts, inventory, card, packages, overrides, bundle, reading, begun, proved>>

\* What a loop uploads now.
Current(u) == Head(loops[u].queue)
IdentityOf(entry) == <<Kind[entry.file], ReleaseOf[entry.file], entry.from>>
At(u, step) == loops[u].step = step /\ loops[u].queue # <<>>

\* setPackageOperation: of no effect on a card that was mounted since.
SetPackageOperation(u, operation) ==
    packages' = IF loops[u].card = card
                THEN [i \in 1 .. Len(packages) |->
                         IF packages[i].file = Current(u).file
                         THEN [packages[i] EXCEPT !.operation = operation] ELSE packages[i]]
                ELSE packages

Move(u, step) == loops' = [loops EXCEPT ![u].step = step]

\* (As it would be if the order alone were relied on.)
SourceComesFirst(u) == TRUE

\* The source of a delta is known to be verified, or the item fails.
SourceIsThere(u) == Kind[Current(u).file] = "full" \/ Current(u).from \in loops[u].full

BeginItem(u) ==
    /\ At(u, "next")
    /\ SourceIsThere(u)
    /\ Move(u, "ticket")
    /\ SetPackageOperation(u, "uploading")
    /\ begun' = begun \cup {IdentityOf(Current(u))}
    /\ UNCHANGED <<artifacts, inventory, card, overrides, bundle, reading, busy, proved>>

\* An item fails, wherever it is, and the next has its turn.
FailItem(u) ==
    /\ loops' = [loops EXCEPT ![u].queue = Tail(@), ![u].step = "next"]
    /\ SetPackageOperation(u, "failed")
    /\ UNCHANGED <<inventory, card, overrides, bundle, reading, busy, begun>>

NoSource(u) ==
    At(u, "next") /\ ~SourceIsThere(u) /\ FailItem(u) /\ UNCHANGED <<artifacts, proved>>

\* The server gives one ticket for an identity, ever.
Ticket(u) ==
    /\ At(u, "ticket")
    /\ artifacts[IdentityOf(Current(u))] = None
    /\ artifacts' = [artifacts EXCEPT ![IdentityOf(Current(u))] =
                        [status |-> "uploading", file |-> Current(u).file]]
    /\ Move(u, "transfer")
    /\ UNCHANGED <<inventory, card, picked, begun, proved>>

\* No ticket, or its answer was lost.
NoTicket(u) ==
    /\ At(u, "ticket")
    /\ FailItem(u)
    /\ UNCHANGED proved
    /\ \/ UNCHANGED artifacts
       \/ /\ artifacts[IdentityOf(Current(u))] = None
          /\ artifacts' = [artifacts EXCEPT ![IdentityOf(Current(u))] =
                              [status |-> "uploading", file |-> Current(u).file]]

Transfer(u) ==
    /\ At(u, "transfer")
    /\ Move(u, "complete")
    /\ UNCHANGED <<artifacts, inventory, card, picked, begun, proved>>

NoTransfer(u) == At(u, "transfer") /\ FailItem(u) /\ UNCHANGED <<artifacts, proved>>

\* The server verifies the bytes and says whether the artifact is good.
Verdict(u, status) ==
    /\ artifacts[IdentityOf(Current(u))].status = "uploading"
    /\ artifacts' = [artifacts EXCEPT ![IdentityOf(Current(u))].status = status]
    /\ proved' = IF status = "verified"
                 THEN proved \cup {<<IdentityOf(Current(u)), Current(u).file>>} ELSE proved

Complete(u) ==
    /\ At(u, "complete")
    /\ Verdict(u, "verified")
    /\ loops' = [loops EXCEPT ![u].queue = Tail(@), ![u].step = "next",
                              ![u].full = IF Kind[Current(u).file] = "full"
                                          THEN @ \cup {ReleaseOf[Current(u).file]} ELSE @]
    /\ SetPackageOperation(u, "verified")
    /\ UNCHANGED <<inventory, card, overrides, bundle, reading, busy, begun>>

\* (As it would be if the status in the answer were not looked at.)
NotCompletedButVerified(u) ==
    /\ At(u, "complete")
    /\ loops' = [loops EXCEPT ![u].queue = Tail(@), ![u].step = "next"]
    /\ SetPackageOperation(u, "verified")
    /\ Verdict(u, "rejected")
    /\ UNCHANGED <<inventory, card, overrides, bundle, reading, busy, begun>>

\* The artifact is rejected, with an answer that says so; or there is no
\* completion, or no answer to it.
NotCompleted(u) ==
    /\ At(u, "complete")
    /\ FailItem(u)
    /\ \/ UNCHANGED <<artifacts, proved>>
       \/ \E status \in {"verified", "rejected"} : Verdict(u, status)

\* (As it would be if a card mounted since were set free too.)
AllTriedOfAnyCard(u) ==
    /\ loops[u].step = "next"
    /\ loops[u].queue = <<>>
    /\ Move(u, "over")
    /\ inventory' \in {inventory, artifacts}
    /\ busy' = ""
    /\ UNCHANGED <<artifacts, card, packages, overrides, bundle, reading, begun, proved>>

\* The last artifact is handed to the panel and the list asked for again; both
\* may fail.
AllTried(u) ==
    /\ loops[u].step = "next"
    /\ loops[u].queue = <<>>
    /\ Move(u, "over")
    /\ inventory' \in {inventory, artifacts}
    /\ busy' = IF loops[u].card = card THEN "" ELSE busy
    /\ UNCHANGED <<artifacts, card, packages, overrides, bundle, reading, begun, proved>>

UploadStep(u) ==
    \/ BeginItem(u) \/ NoSource(u) \/ Ticket(u) \/ NoTicket(u) \/ Transfer(u)
    \/ NoTransfer(u) \/ Complete(u) \/ NotCompleted(u) \/ AllTried(u)

\* Another administrator archives an artifact.
ArchiveElsewhere(identity) ==
    /\ Verified(artifacts, identity)
    /\ artifacts' = [artifacts EXCEPT ![identity].status = "archived"]
    /\ UNCHANGED <<inventory, card, picked, loops, begun, proved>>

Next ==
    \/ InventoryArrives
    \/ \E chosen \in Selections : ChoosePackages(chosen)
    \/ Inspect
    \/ \E signed \in Bundles : ChooseSigningBundle(signed) \/ BundleRead(signed)
    \/ \E file \in Files : ChooseDeltaSource(file)
    \/ Reset \/ Remount
    \/ \E u \in Uploads : UploadAll(u) \/ UploadStep(u)
    \/ \E identity \in Identities : ArchiveElsewhere(identity)

Spec == Init /\ [][Next]_vars

-----------------------------------------------------------------------------
\* The card keeps its shape; only a card whose upload is under way is marked
\* so, and an artifact that is verified was proved so with the file it names.
TypeOK ==
    /\ artifacts \in [Identities -> {None} \cup Artifact]
    /\ inventory = None \/ DOMAIN inventory = Identities
    /\ card \in Uploads
    /\ \A item \in ToSet(packages) :
          /\ item.file \in Files
          /\ item.metadata \in {"waiting", "read", "bad"}
          /\ item.operation \in {"idle", "uploading", "verified", "failed"}
    /\ overrides \in [Files -> Releases \cup {0}]
    /\ bundle \in Bundles \cup {None}
    /\ reading \subseteq Bundles
    /\ busy \in {"", "analyzing", "uploading"}
    /\ (busy = "uploading") =
          \E u \in Uploads : loops[u].card = card /\ loops[u].step # "over"
    /\ begun \subseteq Identities
    /\ proved \subseteq Identities \X Files
    /\ \A identity \in Identities :
          Verified(artifacts, identity) => <<identity, artifacts[identity].file>> \in proved

\* No ticket is asked for a delta before the full package it starts from was
\* verified, whichever of the batch failed, and whatever the administrator
\* and other ones changed since the batch was prepared.
DeltasFollowTheirSource ==
    \A identity \in begun :
        identity[1] = "delta" => \E file \in Files : <<Full(identity[3]), file>> \in proved

\* A row that says "Verified" is of a file the server verified, as the version
\* and kind of the row; one that says "Already verified" is of a file that was
\* verified as the very artifact of the row; and no row says "Uploading" once
\* the batch is over.
RowsTellTheTruth ==
    \A item \in ToSet(packages) :
        LET state == PackageState(item) IN
        /\ state = "Verified" =>
              \E proof \in proved : /\ proof[2] = item.file
                                   /\ proof[1][1] = Kind[item.file]
                                   /\ proof[1][2] = ReleaseOf[item.file]
        /\ state = "Already verified" =>
              <<Identity(item.file), item.file>> \in proved
        /\ state = "Uploading" => busy = "uploading"
=============================================================================

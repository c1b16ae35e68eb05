----------------------------- MODULE Documents ------------------------------
(***************************************************************************)
(* The way of one uploaded file: presign, the upload to the bucket it was  *)
(* signed for, submitKyc, which takes the key, and the admin's review,     *)
(* which turns it into a URL.  Five tables have to agree: the purposes     *)
(* that are private, the prefix of each, the pattern of each field of the  *)
(* submission, the pattern of all KYC keys, and the fields reviewed.       *)
(***************************************************************************)
EXTENDS Configuration

CONSTANT Users

ASSUME DocumentsAssumption == Users # {}

VARIABLE
    file        \* the file on its way

UploadPurpose == {"KYC_NIC", "KYC_SELFIE", "KYC_ADDRESS", "KYC_POLICE", "KYC_LICENSE",
                  "KYC_SKILL", "TASK_PHOTO", "COMPLETION_PHOTO", "PROFILE_PHOTO"}

\* The purposes before the other KYC artefacts had their own (mutant).
PrivatePurposesBefore == {"KYC_NIC", "KYC_SELFIE"}

PRIVATE_PURPOSES == {"KYC_NIC", "KYC_SELFIE", "KYC_ADDRESS", "KYC_POLICE", "KYC_LICENSE",
                     "KYC_SKILL"}

PURPOSE_PREFIX == [
    KYC_NIC |-> "nic", KYC_SELFIE |-> "selfie", KYC_ADDRESS |-> "address",
    KYC_POLICE |-> "police", KYC_LICENSE |-> "license", KYC_SKILL |-> "skill",
    TASK_PHOTO |-> "tasks/photos", COMPLETION_PHOTO |-> "tasks/completion",
    PROFILE_PHOTO |-> "profiles" ]

\* ANY_KYC_KEY_PATTERN: the prefix, without "kyc/", that a KYC key may have.
AnyKycKey == {"nic", "selfie", "address", "police", "license", "skill"}

\* SubmitKycDto: the subtype that each field takes.
FieldSubtype == [
    nicPhotoUrl |-> "nic", selfieUrl |-> "selfie", addressProofUrl |-> "address",
    policeClearanceUrl |-> "police", drivingLicenseUrl |-> "license",
    skillProofUrl |-> "skill" ]

File == [status : {"none", "signed", "uploaded"}, purpose : UploadPurpose, owner : Users,
         bucket : {"private", "public"}, public : BOOLEAN,
         profiles : SUBSET Users,           \* whose profile has the key
         readFrom : {"nowhere", "private"}]  \* the bucket of the review's URL

NoFile == [status |-> "none", purpose |-> "KYC_NIC", owner |-> CHOOSE u \in Users : TRUE,
           bucket |-> "private", public |-> FALSE, profiles |-> {}, readFrom |-> "nowhere"]

FileIs(s) == phase = "running" /\ file.status \in s
Prefix == PURPOSE_PREFIX[file.purpose]

kycKeyBelongsTo(u) == Prefix \in AnyKycKey /\ file.owner = u

-----------------------------------------------------------------------------
\* presign, which fails unless the storage is configured.
Presign(u, purpose) ==
    /\ FileIs({"none"})
    /\ env.S3 = "set"
    /\ LET isPrivate == purpose \in PRIVATE_PURPOSES
       IN file' = [file EXCEPT !.status = "signed", !.purpose = purpose, !.owner = u,
                               !.bucket = IF isPrivate THEN "private" ELSE "public",
                               !.public = ~isPrivate]

\* The client uploads to the URL it was given (outside the code).
Upload ==
    /\ FileIs({"signed"})
    /\ file' = [file EXCEPT !.status = "uploaded"]

\* submitKyc of some user with the key in some field: the pattern of the field,
\* then the owner.
Submit(u, field) ==
    /\ FileIs({"signed", "uploaded"})
    /\ FieldSubtype[field] = Prefix
    /\ kycKeyBelongsTo(u)
    /\ file' = [file EXCEPT !.profiles = @ \cup {u}]

\* getKycDocuments signs a read of the private bucket for a well-formed key.
Review ==
    /\ FileIs({"signed", "uploaded"})
    /\ file.profiles # {}
    /\ Prefix \in AnyKycKey
    /\ env.S3 = "set"
    /\ file' = [file EXCEPT !.readFrom = "private"]

-----------------------------------------------------------------------------
DocumentsInit == file = NoFile

DocumentsStep ==
    \/ \E u \in Users, purpose \in UploadPurpose : Presign(u, purpose)
    \/ Upload
    \/ \E u \in Users, field \in DOMAIN FieldSubtype : Submit(u, field)
    \/ Review
=============================================================================

------------------------------ MODULE Manifest ------------------------------
(***************************************************************************)
(* The capability manifests that rickygit publishes for its commands       *)
(* (crates/rickydata-git-rdl): what a host that runs the commands for an   *)
(* agent is told each of them needs, and so what it may change.            *)
(***************************************************************************)
(* The combinations most manifests are made of.  Reading through the cache *)
(* fills it, so a command that reads objects also writes local metadata.   *)
Looking == {"GitRead", "LocalMetadataRead"}
Reading == Looking \cup {"LocalMetadataWrite"}
Recording == {"LocalMetadataWrite", "GitObjectWrite", "GitRefUpdate"}

SetupManifests ==
    [key_generate |-> {"LocalFileWrite", "ActorSign"},
     key_init     |-> {"LocalFileWrite", "ActorSign"},
     key_show     |-> {"LocalFileRead", "ActorSign"},
     repo_init    |-> {"GitRead", "LocalMetadataWrite"},
     repo_status  |-> Looking]

RepoManifests ==
    [repo_inspect   |-> {"GitRead"},
     doctor         |-> {"GitRead"},
     manifest_emit  |-> {},
     schema_emit    |-> {},
     discovery_emit |-> {"GitRead"}]

AttemptManifests ==
    [attempt_start   |-> Reading \cup Recording \cup {"WorktreeCreate"},
     attempt_list    |-> Reading,
     attempt_show    |-> Reading,
     attempt_status  |-> Looking,
     attempt_abandon |-> Recording,
     attempt_submit  |-> Recording]

IntentManifests ==
    [issue_import    |-> {"IssueRead", "GitObjectWrite", "GitRefUpdate"},
     work_start      |-> {"IssueRead", "GitObjectWrite", "GitRefUpdate",
                          "WorktreeCreate"},
     intent_validate |-> {"LocalFileRead"},
     intent_hash     |-> {"LocalFileRead"},
     intent_write    |-> {"GitRead", "LocalFileRead"} \cup Recording,
     intent_list     |-> Looking,
     intent_show     |-> Reading]

ObjectManifests ==
    [object_write   |-> {"GitRead", "LocalFileRead"} \cup Recording,
     object_read    |-> Reading,
     object_verify  |-> Reading]

PatchManifests ==
    [patch_prepare      |-> Looking \cup Recording,
     patch_list         |-> Reading,
     patch_show         |-> Reading,
     patch_export       |-> Reading \cup {"LocalFileWrite"},
     patch_apply        |-> Reading \cup {"LocalFileWrite"},
     patch_checkout     |-> Reading \cup {"WorktreeCreate", "LocalFileWrite"},
     patch_retire       |-> Looking \cup Recording,
     patch_review_queue |-> Looking]

RunManifests ==
    [change_detect |-> Looking \cup Recording,
     change_list   |-> Reading,
     change_show   |-> Reading,
     run_exec      |-> Looking \cup Recording \cup {"TraceWrite"},
     run_list      |-> Reading,
     run_show      |-> Reading]

SyncManifests ==
    [sync_pull   |-> {"GitRead", "GitRefUpdate"},
     sync_push   |-> {"GitRead", "GitRefUpdate"},
     sync_status |-> {"GitRead"},
     sync_verify |-> Reading]

ProofManifests ==
    [relay_push   |-> Looking,
     relay_pull   |-> Recording,
     relay_status |-> Looking,
     proof        |-> Looking \cup {"RelayRead", "KfdbRead"},
     receipt_verify |-> Looking \cup {"ReceiptVerify"}]

Manifests ==
    {SetupManifests, RepoManifests, AttemptManifests, IntentManifests,
     ObjectManifests, PatchManifests, RunManifests, SyncManifests, ProofManifests}

(* What the manifest of a command declares that it needs. *)
Capabilities ==
    [cmd \in UNION {DOMAIN m : m \in Manifests} |->
       (CHOOSE m \in Manifests : cmd \in DOMAIN m)[cmd]]

Commands == DOMAIN Capabilities

ReadCapabilities == {"GitRead", "LocalFileRead", "LocalMetadataRead",
                     "IssueRead", "RelayRead", "KfdbRead", "ReceiptVerify"}

(* Mutant: updating refs counts as reading Git. *)
MutatesNotRefs(cmd) ==
    Capabilities[cmd] \ (ReadCapabilities \cup {"GitRefUpdate"})

(* What the manifest declares that the command may change. *)
Mutates(cmd) == Capabilities[cmd] \ ReadCapabilities
=============================================================================

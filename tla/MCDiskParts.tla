---------------------------- MODULE MCDiskParts ----------------------------
(***************************************************************************)
(* The parts of the disk view, which share no state, in one instance: TLC   *)
(* explores each by itself, while the others rest in a state of theirs.     *)
(***************************************************************************)
EXTENDS MCDisk, MCJava

VARIABLE part

pipelineRests == /\ tree = {FileIn("a", <<"php">>, "php")} /\ command = CommandLine(TRUE, {}, TRUE, "ok") /\ DiskInit
discoveryRests == host = Piped /\ search = Everywhere /\ DiscoveryInit
unwrapRests == texts = (CHOOSE c \in Corpora : TRUE) /\ source = "a" /\ UnwrapInit
taintRests == page = PageOf("ssi", <<>>) /\ TaintInit
artifactsRest == files = (CHOOSE d \in Disks : TRUE) /\ aside = NothingAside /\ ArtifactsInit
javaRests == jsp = FALSE /\ JavaInit
zipRests == archiveFile = Ordinary /\ ZipInit

\* Who rests comes first: a resting part has one state.
MCInit ==
  \/ /\ part = "pipeline"  /\ discoveryRests /\ unwrapRests /\ taintRests /\ artifactsRest /\ javaRests /\ zipRests
     /\ DiskInit
  \/ /\ part = "discovery" /\ pipelineRests /\ unwrapRests /\ taintRests /\ artifactsRest /\ javaRests /\ zipRests
     /\ \E s \in Starts : host = s[1] /\ search = s[2] /\ DiscoveryInit
  \/ /\ part = "unwrap"    /\ pipelineRests /\ discoveryRests /\ taintRests /\ artifactsRest /\ javaRests /\ zipRests
     /\ UnwrapInit
  \/ /\ part = "taint"     /\ pipelineRests /\ discoveryRests /\ unwrapRests /\ artifactsRest /\ javaRests /\ zipRests
     /\ TaintInit
  \/ /\ part = "artifacts" /\ pipelineRests /\ discoveryRests /\ unwrapRests /\ taintRests /\ javaRests /\ zipRests
     /\ ArtifactsInit /\ FewBeside
  \/ /\ part = "java"      /\ pipelineRests /\ discoveryRests /\ unwrapRests /\ taintRests /\ artifactsRest /\ zipRests
     /\ JavaInit
  \/ /\ part = "zip"       /\ pipelineRests /\ discoveryRests /\ unwrapRests /\ taintRests /\ artifactsRest /\ javaRests
     /\ ZipInit

MCNext ==
  /\ UNCHANGED part
  /\ \/ part = "pipeline"  /\ DiskNext
        /\ UNCHANGED <<discoveryVars, unwrapVars, taintVars, artifactVars, javaVars, zipVars>>
     \/ part = "discovery" /\ DiscoveryNext
        /\ UNCHANGED <<diskVars, unwrapVars, taintVars, artifactVars, javaVars, zipVars>>
     \/ part = "unwrap"    /\ UnwrapNext
        /\ UNCHANGED <<diskVars, discoveryVars, taintVars, artifactVars, javaVars, zipVars>>
     \/ part = "taint"     /\ TaintNext
        /\ UNCHANGED <<diskVars, discoveryVars, unwrapVars, artifactVars, javaVars, zipVars>>
     \/ part = "artifacts" /\ ArtifactsNext
        /\ UNCHANGED <<diskVars, discoveryVars, unwrapVars, taintVars, javaVars, zipVars>>
     \/ part = "java"      /\ JavaNext
        /\ UNCHANGED <<diskVars, discoveryVars, unwrapVars, taintVars, artifactVars, zipVars>>
     \/ part = "zip"       /\ ZipNext
        /\ UNCHANGED <<diskVars, discoveryVars, unwrapVars, taintVars, artifactVars, javaVars>>

MCSpec == MCInit /\ [][MCNext]_<<part, diskVars, discoveryVars, unwrapVars, taintVars, artifactVars, javaVars, zipVars>>
=============================================================================

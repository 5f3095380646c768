------------------------------- MODULE Package -------------------------------
(***************************************************************************)
(* AppletsPackageReader: which blobs of an applet package (a dalp file)    *)
(* the service offers to the VM, and in which order.                       *)
(*                                                                         *)
(* A file is [loads, validates, applets]: whether libxml2 parses it,       *)
(* whether it follows the dalp schema, and its applet elements in order.   *)
(* An element is [platform, appletVersion, fwVersion, blob].  The schema   *)
(* takes any text for a version: it is the tuple of the numbers it starts  *)
(* with, <<>> without a number and a dot, so a text that does not parse is *)
(* too short.  A blob whose text is empty or too long is NoBlob.  fw is    *)
(* the version of the firmware.                                            *)
(***************************************************************************)
EXTENDS Integers, Sequences
LOCAL INSTANCE SequencesExt
LOCAL INSTANCE TLC

CONSTANT NoBlob

INVALID_API_LEVEL == -1
SIGN_ONCE_FW__MAJOR_VERSION == 11
Fail == [ok |-> FALSE, blobs |-> <<>>]

-----------------------------------------------------------------------------
(* The platform the package is read for *)

getPlatformId(fw) ==
  CASE fw[1] \in {1, 2} -> "SEC"
    [] fw[1] \in 7 .. 10 -> "ME"
    [] OTHER -> "CSE"

getPlatformName(id) ==
  IF id \in {"ME", "SEC", "CSE"} THEN id ELSE "INVALID_PLATFORM_NAME"

OnPlatform(node, fw) == node.platform = getPlatformName(getPlatformId(fw))

-----------------------------------------------------------------------------
(* The XML reader.  An XPath is the condition it puts on an element; every *)
(* element has each field once when the file follows the schema.           *)

LoadXml(file) == file.loads
Validate(file) == LoadXml(file) /\ file.validates
isPackageValid(file) == LoadXml(file) /\ Validate(file)

Nodes(file, fw) ==
  LET matches(node) == OnPlatform(node, fw)
  IN SelectSeq(file.applets, matches)
GetNodeCount(file, fw) == IF LoadXml(file) THEN Len(Nodes(file, fw)) ELSE -1
GetNodeText(node, field) == node[field]
GetNodeTextAsBase64(node) == [ok |-> node.blob # NoBlob, blob |-> node.blob]

-----------------------------------------------------------------------------
(* Versions *)

Greater(v, w) ==
  \E i \in 1 .. Len(v) : v[i] > w[i] /\ \A j \in 1 .. i - 1 : v[j] = w[j]

\* The highest major version that is not above the firmware's.
compareFWVersions(fw, current, new) ==
  [ok |-> Len(new) = 3,
   major |-> IF Len(new) = 3 /\ ~Greater(new, fw) /\ new[1] > current
             THEN new[1] ELSE current]

compareAppletVersions(a, b) ==
  Greater(a.fwVersion \o a.appletVersion, b.fwVersion \o b.appletVersion)

\* Not a strict order: of two equal versions each comes before the other.
compareAppletVersionsSignOnce(a, b) == ~Greater(b.appletVersion, a.appletVersion)

getAppletAndFwVersionAsStruct(node) ==
  Len(GetNodeText(node, "appletVersion")) = 2 /\ Len(GetNodeText(node, "fwVersion")) = 3

isSignOnce(fw) == fw[1] \notin {1, 2, 7, 8, 9, 10}

-----------------------------------------------------------------------------
(* The candidates *)

getMatchingAppletsToMajorFwVersion(file, fw, major) ==
  LET ofMajor(node) == node.fwVersion # <<>> /\ node.fwVersion[1] = major
      nodes == SelectSeq(Nodes(file, fw), ofMajor)
  IN [ok |-> \A i \in 1 .. Len(nodes) : getAppletAndFwVersionAsStruct(nodes[i]),
      list |-> [i \in 1 .. Len(nodes) |-> [indexInDalp |-> i] @@ nodes[i]]]

\* The API level is the minor part of the firmware version.
removeHigherApiLevelApplets(list, apiLevel) ==
  LET supported(a) == a.fwVersion[2] <= apiLevel
  IN SelectSeq(list, supported)

\* The orders list::sort can leave: those in which no neighbour wants to be earlier.
Sortings(list, before) ==
  {s \in SetToSeqs(ToSet(list)) : \A i, j \in 1 .. Len(s) : i < j => <<s[i], s[j]>> \in before}

\* Nothing to copy is a failure too.
copyBlobsFromList(list) ==
  IF list # <<>> /\ \A i \in 1 .. Len(list) : GetNodeTextAsBase64(list[i]).ok
  THEN [ok |-> TRUE, blobs |-> [i \in 1 .. Len(list) |-> GetNodeTextAsBase64(list[i]).blob]]
  ELSE Fail

getNonSignOnceAppletBlobs(file, fw, records) ==
  LET step(selected, node) ==
        IF selected.ok
        THEN compareFWVersions(fw, selected.major, GetNodeText(node, "fwVersion"))
        ELSE selected
      selected == FoldLeft(step, [ok |-> TRUE, major |-> 0], records)
      matching == getMatchingAppletsToMajorFwVersion(file, fw, selected.major)
      before == {<<a, b>> \in ToSet(matching.list) \X ToSet(matching.list) :
                   \/ compareAppletVersions(a, b)
                   \/ ~compareAppletVersions(b, a) /\ a.indexInDalp < b.indexInDalp}
  IN CASE ~selected.ok -> {Fail}
       [] selected.ok /\ selected.major = 0 -> {[ok |-> TRUE, blobs |-> <<>>]}
       [] selected.ok /\ selected.major # 0 /\ ~matching.ok -> {Fail}
       [] OTHER -> {copyBlobsFromList(s) : s \in Sortings(matching.list, before)}

getSignOnceAppletBlobs(file, fw, apiLevel) ==
  LET matching == getMatchingAppletsToMajorFwVersion(file, fw, SIGN_ONCE_FW__MAJOR_VERSION)
      list == removeHigherApiLevelApplets(matching.list, apiLevel)
      before == {<<a, b>> \in ToSet(list) \X ToSet(list) : compareAppletVersionsSignOnce(a, b)}
  IN IF ~matching.ok \/ apiLevel = INVALID_API_LEVEL THEN {Fail}
     ELSE {copyBlobsFromList(s) : s \in Sortings(list, before)}

\* AppletsPackageReader::getAppletBlobs; apiLevel is what getPlatformApiLevel returned.
getAppletBlobs(file, fw, apiLevel) ==
  IF \/ getPlatformName(getPlatformId(fw)) = "INVALID_PLATFORM_NAME"
     \/ ~isPackageValid(file)
     \/ GetNodeCount(file, fw) < 1
  THEN {Fail}
  ELSE IF isSignOnce(fw)
       THEN getSignOnceAppletBlobs(file, fw, apiLevel)
       ELSE getNonSignOnceAppletBlobs(file, fw, Nodes(file, fw))
==============================================================================

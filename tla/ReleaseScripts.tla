--------------------------- MODULE ReleaseScripts ----------------------------
(***************************************************************************)
(* The scripts a release is made with (scripts/): release.js with the two  *)
(* scripts it runs to copy the version and to compare it; patch-linux-deb  *)
(* and package-windows-portable, which replace an asset of the release;    *)
(* and android-release-build.  Each is a sequence of steps any of which    *)
(* may fail and end the script, and may be run again on what is left.      *)
(***************************************************************************)
EXTENDS Integers, Sequences, FiniteSets

CONSTANTS
  MaxScriptRuns,   \* script runs and edits of a behaviour
  MaxNumber,       \* numbers in a version
  ApkProfiles      \* "universal" and the per-ABI profiles

ASSUME ScriptsAssumption ==
  /\ MaxScriptRuns \in Nat \ {0} /\ MaxNumber \in Nat \ {0}
  /\ {"universal", "arm64"} \subseteq ApkProfiles /\ "aab" \notin ApkProfiles

VARIABLES
  vfile,           \* version in each file
  vstep,           \* step of release.js
  vexit,           \* how it last ended
  vruns,           \* runs and edits so far
  adeb,            \* the .deb of the build tree
  azip,            \* the portable ZIP of the build tree
  apub,            \* the assets of the release on GitHub
  ascript,         \* the script that runs
  astep,           \* its step
  atemp,           \* its temporary directory exists
  aci,             \* RELEASE_ID and GITHUB_REPOSITORY are set
  aexit,           \* how the last script ended
  alast,           \* history: that script, and whether it had work to do
  aruns,
  dgen,            \* packages in the Gradle output directory of a profile
  dout,            \* packages in build/android-apks and build/android-aab
  dkey,            \* the keystore variables are set
  dsel,            \* selected profiles
  dtodo,           \* those still to build
  dstep, dexit, drun

versionVars == <<vfile, vstep, vexit, vruns>>
assetVars == <<adeb, azip, apub, ascript, astep, atemp, aci, aexit, alast, aruns>>
androidVars == <<dgen, dout, dkey, dsel, dtodo, dstep, dexit, drun>>
scriptVars == <<versionVars, assetVars, androidVars>>

-----------------------------------------------------------------------------
(* The version: package.json is the source, the other three are copies. *)

VersionFiles == {"package", "tauri", "cargo", "readme"}
NaN == -1

\* plain: digits and dots only, which is all the patterns of the scripts match.
VersionOf(a, b, c, plain) == [at |-> <<a, b, c>>, plain |-> plain]

\* A suffix makes the patch number NaN, and that is what is written.
Bumped(v, arg) ==
  CASE arg = "patch" -> VersionOf(v.at[1], v.at[2],
                                  IF v.plain THEN v.at[3] + 1 ELSE NaN, v.plain)
    [] arg = "minor" -> VersionOf(v.at[1], v.at[2] + 1, 0, TRUE)
    [] arg = "major" -> VersionOf(v.at[1] + 1, 0, 0, TRUE)

\* package.json is written before anything else can fail.
StartRelease(v) ==
  /\ vstep = "idle" /\ vruns < MaxScriptRuns
  /\ \A k \in 1..3 : v.at[k] =< MaxNumber
  /\ vfile' = [vfile EXCEPT !["package"] = v]
  /\ vstep' = "tauri" /\ vexit' = "none" /\ vruns' = vruns + 1

\* sync-version.js: JSON is rewritten, text only where the pattern matches.  The
\* version of the README is its badge's, the one validate-version.js reads.
SyncVersion(f) ==
  /\ vstep = f /\ f \in {"tauri", "cargo", "readme"}
  /\ vfile' = IF f = "tauri" \/ vfile[f].plain
              THEN [vfile EXCEPT ![f] = vfile["package"]] ELSE vfile
  /\ vstep' = [tauri |-> "cargo", cargo |-> "readme", readme |-> "validate"][f]
  /\ UNCHANGED <<vexit, vruns>>

SyncFails ==
  /\ vstep \in {"tauri", "cargo", "readme"}
  /\ vstep' = "idle" /\ vexit' = "failed"
  /\ UNCHANGED <<vfile, vruns>>

\* Mutant: a file whose version cannot be read is passed over.
ValidatePassesUnread ==
  /\ vstep = "validate"
  /\ vexit' = IF \A f \in VersionFiles : vfile[f].plain => vfile[f] = vfile["package"]
              THEN "ok" ELSE "failed"
  /\ vstep' = "idle"
  /\ UNCHANGED <<vfile, vruns>>

\* validate-version.js: a text file the pattern does not match has no version.
ValidateVersion ==
  /\ vstep = "validate"
  /\ LET Agrees(f) == /\ f \in {"cargo", "readme"} => vfile[f].plain
                      /\ vfile[f] = vfile["package"]
     IN  vexit' = IF \A f \in VersionFiles : Agrees(f) THEN "ok" ELSE "failed"
  /\ vstep' = "idle"
  /\ UNCHANGED <<vfile, vruns>>

\* Someone edits one of the files between two runs.
EditVersion(f, plain) ==
  /\ vstep = "idle" /\ vruns < MaxScriptRuns
  /\ vfile' = [vfile EXCEPT ![f] = VersionOf(0, 0, 1, plain)]
  /\ vexit' = "none" /\ vruns' = vruns + 1
  /\ UNCHANGED vstep

VersionNext ==
  /\ \/ \E arg \in {"patch", "minor", "major"} :
          StartRelease(Bumped(vfile["package"], arg))
     \/ StartRelease(VersionOf(1, 0, 0, TRUE))
     \/ \E f \in VersionFiles : SyncVersion(f) \/ \E b \in BOOLEAN : EditVersion(f, b)
     \/ SyncFails \/ ValidateVersion
  /\ UNCHANGED <<assetVars, androidVars>>

-----------------------------------------------------------------------------
(* The assets that are replaced on the release after the build. *)

\* tauri-action builds and uploads; the ZIP of an earlier build stays listed.
TauriBuild ==
  /\ ascript = "none" /\ aruns < MaxScriptRuns
  /\ adeb' = "stock"
  /\ apub' = [deb |-> "stock", zip |-> IF apub["zip"] = "none" THEN "none" ELSE "stale"]
  /\ azip' = IF azip = "none" THEN "none" ELSE "stale"
  /\ aexit' = "none" /\ aruns' = aruns + 1
  /\ UNCHANGED <<ascript, astep, atemp, aci, alast>>

StartScript(s, step, work) ==
  /\ ascript = "none" /\ aruns < MaxScriptRuns
  /\ ascript' = s /\ astep' = step /\ atemp' = TRUE
  /\ aexit' = "none" /\ alast' = [script |-> s, work |-> work] /\ aruns' = aruns + 1
  /\ UNCHANGED <<adeb, azip, apub, aci>>

\* No artefact: the script ends at once, with success.
PatchLinuxDeb == adeb # "none" /\ StartScript("deb", "patch", adeb = "stock")
PackageWindowsPortable == StartScript("zip", "stage", TRUE)

\* Every way out of a script, its finally blocks included.
EndScript(how) ==
  /\ ascript' = "none" /\ astep' = "idle" /\ atemp' = FALSE /\ aexit' = how

\* Without a release id the upload is skipped.
ToUpload == IF aci THEN astep' = "list" /\ UNCHANGED <<ascript, aexit>>
            ELSE /\ ascript' = "none" /\ astep' = "idle" /\ aexit' = "ok"

\* Unpack, rewrite Depends, pack again; a package that is already compatible
\* is neither packed nor uploaded again.
PatchDeb ==
  /\ ascript = "deb" /\ astep = "patch"
  /\ \/ adeb' \in {adeb, "broken"} /\ EndScript("failed")
     \/ adeb = "patched" /\ UNCHANGED adeb /\ EndScript("ok")
     \/ adeb = "stock" /\ adeb' = "patched" /\ atemp' = FALSE /\ ToUpload
  /\ UNCHANGED <<azip, apub, aci, alast, aruns>>

\* The executable, the resources and the marker, or an error.
StagePortablePayload ==
  /\ ascript = "zip" /\ astep = "stage"
  /\ \/ EndScript("failed")
     \/ astep' = "pack" /\ UNCHANGED <<ascript, atemp, aexit>>
  /\ UNCHANGED <<adeb, azip, apub, aci, alast, aruns>>

\* The old ZIP goes first.
CreateZipArchive ==
  /\ ascript = "zip" /\ astep = "pack"
  /\ \/ azip' = "none" /\ EndScript("failed")
     \/ azip' \in {"current", "bad"} /\ astep' = "check" /\ UNCHANGED <<ascript, atemp, aexit>>
  /\ UNCHANGED <<adeb, apub, aci, alast, aruns>>

\* Too small, or without the executable or the marker.
AssertZipLooksValid ==
  /\ ascript = "zip" /\ astep = "check"
  /\ IF azip = "bad" THEN EndScript("failed")
     ELSE IF aci THEN astep' = "list" /\ UNCHANGED <<ascript, atemp, aexit>>
     ELSE EndScript("ok")
  /\ UNCHANGED <<adeb, azip, apub, aci, alast, aruns>>

ListAssets ==
  /\ astep = "list"
  /\ \/ EndScript("failed")
     \/ /\ astep' = IF apub[ascript] # "none" THEN "delete" ELSE "post"
        /\ UNCHANGED <<ascript, atemp, aexit>>
  /\ UNCHANGED <<adeb, azip, apub, aci, alast, aruns>>

DeleteAsset ==
  /\ astep = "delete"
  /\ \/ EndScript("failed") /\ UNCHANGED apub
     \/ /\ apub' = [apub EXCEPT ![ascript] = "none"]
        /\ astep' = "post" /\ UNCHANGED <<ascript, atemp, aexit>>
  /\ UNCHANGED <<adeb, azip, aci, alast, aruns>>

\* A POST that fails leaves the release without the asset.
PostAsset ==
  /\ astep = "post"
  /\ \/ EndScript("failed") /\ UNCHANGED apub
     \/ /\ apub' = [apub EXCEPT ![ascript] = IF ascript = "deb" THEN adeb ELSE azip]
        /\ EndScript("ok")
  /\ UNCHANGED <<adeb, azip, aci, alast, aruns>>

AssetNext ==
  /\ \/ TauriBuild \/ PatchLinuxDeb \/ PackageWindowsPortable \/ PatchDeb
     \/ StagePortablePayload \/ CreateZipArchive \/ AssertZipLooksValid
     \/ ListAssets \/ DeleteAsset \/ PostAsset
  /\ UNCHANGED <<versionVars, androidVars>>

-----------------------------------------------------------------------------
(* The Android packages. *)

Profiles == ApkProfiles \cup {"aab"}
Package == [run : 0..MaxScriptRuns, signed : BOOLEAN, abis : BOOLEAN]
NoPackage == [run |-> 0, signed |-> FALSE, abis |-> FALSE]

\* gen/android is removed before it is generated again.
GenRemoved == [p \in Profiles |-> {}]

\* sel: the profiles of ANDROID_APK_PROFILES, then those of ANDROID_AAB_PROFILES;
\* an unknown one ends the script.
StartAndroidBuild(key, sel) ==
  /\ dstep = "idle" /\ drun < MaxScriptRuns
  /\ drun' = drun + 1 /\ dkey' = key /\ dsel' = sel /\ dtodo' = sel
  /\ dgen' = GenRemoved
  /\ dstep' = "init" /\ dexit' = "none"
  /\ UNCHANGED dout

EndBuild(how) == dstep' = "idle" /\ dexit' = how

\* tauri android init, git checkout, the checks of what they left, the token,
\* the keystore.
InitAndroid ==
  /\ dstep = "init"
  /\ \/ EndBuild("failed")
     \/ dstep' = "patch" /\ UNCHANGED dexit
  /\ UNCHANGED <<dgen, dout, dkey, dsel, dtodo, drun>>

\* apply-android-release-gradle-patches.js: signing is patched in when there is
\* a keystore.properties, which a fresh tree has if the variables are set.
ApplyGradlePatches ==
  /\ dstep = "patch"
  /\ \/ EndBuild("failed")
     \/ dstep' = "build" /\ UNCHANGED dexit
  /\ UNCHANGED <<dgen, dout, dkey, dsel, dtodo, drun>>

\* Gradle (external) signs if it has a key and its signing configuration applied;
\* an unsigned APK and a signed one have different names, a bundle keeps its name.
BuildProfile ==
  /\ dstep = "build" /\ dtodo # <<>>
  /\ LET p == Head(dtodo)
     IN  \/ EndBuild("failed") /\ UNCHANGED dgen
         \/ dstep' = "collect" /\ UNCHANGED <<dgen, dexit>>
         \/ \E s, a \in BOOLEAN :
              LET Replaced == {f \in dgen[p] : p = "aab" \/ f.signed = s}
              IN  /\ s => dkey
                  /\ dgen' = [dgen EXCEPT ![p] =
                       (@ \ Replaced) \cup {[run |-> drun, signed |-> s, abis |-> a]}]
                  /\ dstep' = "collect" /\ UNCHANGED dexit
  /\ UNCHANGED <<dout, dkey, dsel, dtodo, drun>>

\* findApkInDir takes the unsigned one if there is one; findAabInDir the only one.
FoundPackage(p) ==
  LET unsigned == {f \in dgen[p] : ~f.signed}
  IN  CHOOSE f \in dgen[p] : unsigned # {} => f \in unsigned

\* keystore.properties is complete when this run wrote it, absent otherwise.
HasKeystore == dkey

\* apksigner is missing or fails, or the package gets its signature.
ApksignerSigns(p) == p # "aab" /\ HasKeystore /\ ~FoundPackage(p).signed

\* A package Gradle signed is copied, another one is signed or, without a key,
\* copied under its unsigned name.  A bundle is copied as it is.
CollectPackage ==
  /\ dstep = "collect"
  /\ LET p == Head(dtodo)
         f == FoundPackage(p)
         name == IF f.signed \/ HasKeystore THEN "signed" ELSE "unsigned"
     IN  \/ dgen[p] = {} /\ EndBuild("failed") /\ UNCHANGED dout
         \/ dgen[p] # {} /\ ApksignerSigns(p) /\ EndBuild("failed") /\ UNCHANGED dout
         \/ /\ dgen[p] # {}
            /\ dout' = [dout EXCEPT ![p][name] = [f EXCEPT !.signed = @ \/ ApksignerSigns(p)]]
            /\ dstep' = "verify" /\ UNCHANGED dexit
  /\ UNCHANGED <<dgen, dkey, dsel, dtodo, drun>>

\* Always looked at under its signed name.
UniversalApkVerified ==
  LET f == dout["universal"]["signed"] IN f # NoPackage /\ f.abis

\* Looked at under the name it was copied to.
BundleVerified ==
  LET f == dout["aab"][IF HasKeystore THEN "signed" ELSE "unsigned"]
  IN  f.abis /\ (HasKeystore => f.signed)

VerifyPackage ==
  /\ dstep = "verify"
  /\ LET p == Head(dtodo)
         good == /\ p = "universal" => UniversalApkVerified
                 /\ p = "aab" => BundleVerified
     IN  IF ~good THEN EndBuild("failed") /\ UNCHANGED dtodo
         ELSE /\ dtodo' = Tail(dtodo)
              /\ IF Len(dtodo) = 1 THEN EndBuild("ok")
                 ELSE dstep' = "build" /\ UNCHANGED dexit
  /\ UNCHANGED <<dgen, dout, dkey, dsel, drun>>

AndroidNext ==
  /\ \/ \E key \in BOOLEAN, sel \in {<<"universal", "arm64">>, <<"arm64", "aab">>, <<"universal">>} :
          StartAndroidBuild(key, sel)
     \/ InitAndroid \/ ApplyGradlePatches \/ BuildProfile \/ CollectPackage
     \/ VerifyPackage
  /\ UNCHANGED <<versionVars, assetVars>>

-----------------------------------------------------------------------------
ScriptsInit ==
  /\ vfile = [f \in VersionFiles |-> VersionOf(0, 0, 0, TRUE)]
  /\ vstep = "idle" /\ vexit = "none" /\ vruns = 0
  /\ adeb = "none" /\ azip = "none" /\ apub = [deb |-> "none", zip |-> "none"]
  /\ ascript = "none" /\ astep = "idle" /\ atemp = FALSE /\ aci \in BOOLEAN
  /\ aexit = "none" /\ alast = [script |-> "none", work |-> FALSE] /\ aruns = 0
  /\ dgen = [p \in Profiles |-> {}]
  /\ dout = [p \in Profiles |-> [signed |-> NoPackage, unsigned |-> NoPackage]]
  /\ dkey = FALSE /\ dsel = <<>> /\ dtodo = <<>>
  /\ dstep = "idle" /\ dexit = "none" /\ drun = 0

ScriptsTypeOK ==
  /\ DOMAIN vfile = VersionFiles /\ vexit \in {"none", "ok", "failed"}
  /\ adeb \in {"none", "stock", "patched", "broken"}
  /\ azip \in {"none", "current", "stale", "bad"}
  /\ {atemp, aci, dkey} \subseteq BOOLEAN
  /\ dgen \in [Profiles -> SUBSET Package]
  /\ dout \in [Profiles -> [{"signed", "unsigned"} -> Package]]

(***************************************************************************)
(* A release that reports success left one version, a plain one, in all    *)
(* four files, whatever earlier runs that failed half way and edits by     *)
(* hand had left in them (release.js, sync-version.js and                  *)
(* validate-version.js: the copies are patterns that may not match).       *)
(***************************************************************************)
ReleaseAgrees ==
  vexit = "ok" => \A f \in VersionFiles : vfile[f].plain /\ vfile[f] = vfile["package"]

(***************************************************************************)
(* A script that had something to do and ends well in CI has replaced the  *)
(* asset by what it made, never by a ZIP that failed its check, whatever   *)
(* failed runs before it had deleted (uploadAsset, reuploadAsset).         *)
(***************************************************************************)
PublishedIsCurrent ==
  /\ aexit = "ok" /\ aci /\ alast.work =>
       apub[alast.script] = IF alast.script = "deb" THEN "patched" ELSE "current"
  /\ apub["zip"] # "bad" /\ apub["deb"] # "broken"

(***************************************************************************)
(* No script leaves its temporary directory behind, at whichever of its    *)
(* steps it fails (the finally blocks of patchDeb and main).               *)
(***************************************************************************)
NoTempLeft == ascript = "none" => ~atemp

(***************************************************************************)
(* An Android build that ends well has written every selected package in   *)
(* this very run, although build/ keeps the packages of earlier runs; with *)
(* a key each is signed, and the universal APK and the bundle have all     *)
(* ABIs.  (Without a key the universal APK that is verified is the signed  *)
(* one, which only an earlier run can have left.)                          *)
(***************************************************************************)
PackagesAreOfThisRun ==
  dexit = "ok" => \A k \in DOMAIN dsel :
    LET p == dsel[k]
        f == dout[p][IF dkey THEN "signed" ELSE "unsigned"]
    IN  /\ f.run = drun /\ (dkey => f.signed)
        /\ (p = "aab" \/ (p = "universal" /\ dkey)) => f.abis

(***************************************************************************)
(* A script that reports success left what it promises, also after runs    *)
(* that failed half way: one version, the current assets, packages of this *)
(* run, and no temporary files (the four parts above).                     *)
(***************************************************************************)
ReleaseIsWhole ==
  ReleaseAgrees /\ PublishedIsCurrent /\ NoTempLeft /\ PackagesAreOfThisRun
=============================================================================

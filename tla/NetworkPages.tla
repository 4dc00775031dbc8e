---------------------------- MODULE NetworkPages -----------------------------
(***************************************************************************)
(* The network settings pages and the relay button of the footer:          *)
(* relay-settings.tsx (relay URLs and their test), discovery-settings.tsx  *)
(* (the pkarr URL and its test) and RelayStatusButton.tsx (the status of   *)
(* the configured relay).  Each keeps the answer of a slow call next to    *)
(* settings that may be edited while the call runs.                        *)
(* A URL is a name; NoUrl is an empty field, BadUrl one that is invalid.   *)
(***************************************************************************)
EXTENDS Integers, Sequences, FiniteSets

CONSTANTS
  Urls,            \* valid URLs
  Cleartext,       \* those of them that are not https
  BadUrl,          \* a URL the validation refuses
  MaxRows          \* rows of relay URLs

NoUrl == ""

ASSUME PagesAssumption ==
  /\ NoUrl \notin Urls /\ BadUrl \notin Urls /\ Cleartext \subseteq Urls
  /\ MaxRows \in Nat \ {0}

Fields == Urls \cup {NoUrl, BadUrl}

VARIABLES
  rmode,           \* relayMode
  rrows,           \* relayUrls
  rtoken,          \* a relay token is set
  rfallback,       \* relayFallback: what a custom relay that fails falls back to
  rmarks,          \* verifyResults
  rtest,           \* the test under way: <<>>, or the distinct URLs it asks for
  rtesting,        \* isTesting
  rproved,         \* history: last answer for each URL
  durl,            \* pkarrRelayUrl
  dorigin,         \* dnsOrigin
  dcustom,         \* discoveryMode is custom
  dstatus,         \* verifyStatus
  dtest,           \* the URL and origin being tested, <<>> when none
  dproved,         \* history: the URL and origin whose test set the mark
  dedited,         \* history: edited since the test began
  scfg,            \* the relay configuration
  sshown,          \* status on the button: the configuration it is of, or none
  sloading,        \* isLoading
  sasks            \* get_relay_status calls under way

relayVars == <<rmode, rrows, rtoken, rfallback, rmarks, rtest, rtesting, rproved>>
discoveryVars == <<durl, dorigin, dcustom, dstatus, dtest, dproved, dedited>>
statusVars == <<scfg, sshown, sloading, sasks>>
pVars == <<relayVars, discoveryVars, statusVars>>

PInit ==
  /\ rmode = "default" /\ rrows = <<NoUrl>> /\ rtoken = FALSE
  /\ rfallback = "strict"
  /\ rmarks = [u \in Urls |-> "none"] /\ rtest = <<>> /\ rtesting = FALSE
  /\ rproved = [u \in Urls |-> "none"]
  /\ durl = NoUrl /\ dorigin = NoUrl /\ dcustom = FALSE /\ dstatus = "idle"
  /\ dtest = <<>> /\ dproved = <<>> /\ dedited = FALSE
  /\ scfg = "relay1" /\ sshown = "none" /\ sloading = TRUE
  /\ sasks = <<[cfg |-> "relay1", cancelled |-> FALSE]>>

-----------------------------------------------------------------------------
(* Relay page. *)

\* The radio buttons of the page (the browser build has no "disabled").
ModesOffered == {"default", "custom", "disabled"}

SetRelayMode(m) ==
  /\ rmode' = m /\ rmode # m
  /\ UNCHANGED <<rrows, rtoken, rfallback, rmarks, rtest, rtesting, rproved>>

CustomShown == rmode = "custom"

UpdateUrl(i, u) ==
  /\ CustomShown /\ rrows[i] # u
  /\ rrows' = [rrows EXCEPT ![i] = u]
  /\ UNCHANGED <<rmode, rtoken, rfallback, rmarks, rtest, rtesting, rproved>>

AddUrl ==
  /\ CustomShown /\ Len(rrows) < MaxRows
  /\ rrows' = Append(rrows, NoUrl)
  /\ UNCHANGED <<rmode, rtoken, rfallback, rmarks, rtest, rtesting, rproved>>

\* Mutant: the last row goes like any other.
RemoveLastRow(i) ==
  /\ CustomShown
  /\ rrows' = [j \in 1..(Len(rrows) - 1) |-> IF j < i THEN rrows[j] ELSE rrows[j + 1]]
  /\ UNCHANGED <<rmode, rtoken, rfallback, rmarks, rtest, rtesting, rproved>>

RemoveOffered(i) == ~(Len(rrows) = 1 /\ rrows[i] = NoUrl)

RemoveUrl(i) ==
  /\ CustomShown /\ RemoveOffered(i)
  /\ rrows' = IF Len(rrows) =< 1 THEN <<NoUrl>>
              ELSE [j \in 1..(Len(rrows) - 1) |->
                      IF j < i THEN rrows[j] ELSE rrows[j + 1]]
  /\ UNCHANGED <<rmode, rtoken, rfallback, rmarks, rtest, rtesting, rproved>>

ToggleToken ==
  /\ CustomShown
  /\ rtoken' = ~rtoken
  /\ UNCHANGED <<rmode, rrows, rfallback, rmarks, rtest, rtesting, rproved>>

SetRelayFallback(f) ==
  /\ CustomShown /\ f # rfallback
  /\ rfallback' = f
  /\ UNCHANGED <<rmode, rrows, rtoken, rmarks, rtest, rtesting, rproved>>

TestOffered == ~rtesting /\ rmode # "disabled"

\* The filled rows, each URL once, in order.
UniqueUrls ==
  LET Filled(r) == r # NoUrl
      f == SelectSeq(rrows, Filled)
      First(k) == \A j \in 1..(k - 1) : f[j] # f[k]
      ks == {k \in DOMAIN f : First(k)}
  IN  [n \in 1..Cardinality(ks) |->
         f[CHOOSE k \in ks : Cardinality({j \in ks : j < k}) = n - 1]]

\* No URL, an invalid one, or a token that would travel in clear text only
\* shows an error.
VerifyCustomRelays ==
  /\ TestOffered /\ CustomShown
  /\ UniqueUrls # <<>> /\ \A k \in DOMAIN UniqueUrls : UniqueUrls[k] \in Urls
  /\ rtoken => \A k \in DOMAIN UniqueUrls : UniqueUrls[k] \notin Cleartext
  /\ rtesting' = TRUE /\ rtest' = UniqueUrls
  /\ rmarks' = [u \in Urls |-> IF \E k \in DOMAIN UniqueUrls : UniqueUrls[k] = u
                               THEN "checking" ELSE rmarks[u]]
  /\ UNCHANGED <<rmode, rrows, rtoken, rfallback, rproved>>

\* Mutant: the answers are put next to the rows they were asked from.
MarksByRow ==
  /\ rtesting /\ rtest # <<>>
  /\ rtesting' = FALSE /\ rtest' = <<>>
  /\ \E ok \in [DOMAIN rtest -> {"ok", "failed"}] :
       LET OfTest(u) == CHOOSE k \in DOMAIN rtest : rtest[k] = u
           Tested(u) == \E k \in DOMAIN rtest : rtest[k] = u
           InRow(u) == {k \in DOMAIN rtest \cap DOMAIN rrows : rrows[k] = u}
       IN /\ rproved' = [u \in Urls |-> IF Tested(u) THEN ok[OfTest(u)] ELSE rproved[u]]
          /\ rmarks' = [u \in Urls |->
               IF InRow(u) # {} THEN ok[CHOOSE k \in InRow(u) : TRUE]
               ELSE IF rmarks[u] = "checking" THEN "none" ELSE rmarks[u]]
  /\ UNCHANGED <<rmode, rrows, rtoken, rfallback>>

\* All answers are in: each is filed under the URL it is of.
VerifyAnswers ==
  /\ rtesting /\ rtest # <<>>
  /\ rtesting' = FALSE /\ rtest' = <<>>
  /\ \E ok \in [DOMAIN rtest -> {"ok", "failed"}] :
       LET OfTest(u) == CHOOSE k \in DOMAIN rtest : rtest[k] = u
           Tested(u) == \E k \in DOMAIN rtest : rtest[k] = u
       IN /\ rproved' = [u \in Urls |-> IF Tested(u) THEN ok[OfTest(u)] ELSE rproved[u]]
          /\ rmarks' = [u \in Urls |-> IF Tested(u) THEN ok[OfTest(u)] ELSE rmarks[u]]
  /\ UNCHANGED <<rmode, rrows, rtoken, rfallback>>

\* The default relays are tested by one call that marks no row.
TestDefaultRelays ==
  /\ \/ TestOffered /\ rmode = "default" /\ rtesting' = TRUE
     \/ rtesting /\ rtest = <<>> /\ rtesting' = FALSE
  /\ UNCHANGED <<rmode, rrows, rtoken, rfallback, rmarks, rtest, rproved>>

\* The mark next to a row.
RowMark(i) == IF rrows[i] \in Urls THEN rmarks[rrows[i]] ELSE "none"

RelayNext ==
  /\ \/ \E m \in ModesOffered : SetRelayMode(m)
     \/ \E f \in {"strict", "public"} : SetRelayFallback(f)
     \/ \E i \in DOMAIN rrows : RemoveUrl(i) \/ \E u \in Fields : UpdateUrl(i, u)
     \/ AddUrl \/ ToggleToken \/ VerifyCustomRelays \/ VerifyAnswers
     \/ TestDefaultRelays
  /\ UNCHANGED <<discoveryVars, statusVars>>

-----------------------------------------------------------------------------
(* Discovery page. *)

SetDiscoveryMode ==
  /\ dcustom' = ~dcustom /\ dstatus' = "idle"
  /\ dedited' = (dedited \/ dtest # <<>>)
  /\ UNCHANGED <<durl, dorigin, dtest, dproved>>

\* The two fields are only shown for a custom server.
DiscoveryFieldsShown == dcustom

\* A pkarr URL is required, an origin is not.
ValidDiscoveryUrl(u) == u \in Urls
ValidDnsOrigin(o) == o # BadUrl

UpdatePkarrUrl(u) ==
  /\ DiscoveryFieldsShown /\ u # durl
  /\ durl' = u /\ dstatus' = "idle"
  /\ dedited' = (dedited \/ dtest # <<>>)
  /\ UNCHANGED <<dorigin, dcustom, dtest, dproved>>

UpdateDnsOrigin(o) ==
  /\ DiscoveryFieldsShown /\ o # dorigin
  /\ dorigin' = o /\ dstatus' = "idle"
  /\ dedited' = (dedited \/ dtest # <<>>)
  /\ UNCHANGED <<durl, dcustom, dtest, dproved>>

DiscoveryTestOffered == dtest = <<>> /\ dcustom /\ ValidDnsOrigin(dorigin)

\* A field that is not valid only shows an error.
TestDiscovery ==
  /\ DiscoveryTestOffered /\ ValidDiscoveryUrl(durl)
  /\ dtest' = <<durl, dorigin>> /\ dstatus' = "idle" /\ dedited' = FALSE
  /\ UNCHANGED <<durl, dorigin, dcustom, dproved>>

DiscoveryAnswers ==
  /\ dtest # <<>>
  /\ dtest' = <<>> /\ dproved' = dtest
  /\ dstatus' \in {"ok", "failed"}
  /\ UNCHANGED <<durl, dorigin, dcustom, dedited>>

DiscoveryNext ==
  /\ \/ SetDiscoveryMode \/ TestDiscovery \/ DiscoveryAnswers
     \/ \E u \in Fields : UpdatePkarrUrl(u) \/ UpdateDnsOrigin(u)
  /\ UNCHANGED <<relayVars, statusVars>>

-----------------------------------------------------------------------------
(* The relay button. *)

\* A new configuration cancels the calls of the old one and asks again.
RelayConfigChanges(c) ==
  /\ c # scfg /\ Len(sasks) < 3
  /\ scfg' = c /\ sloading' = TRUE
  /\ sasks' = Append([k \in DOMAIN sasks |-> [sasks[k] EXCEPT !.cancelled = TRUE]],
                     [cfg |-> c, cancelled |-> FALSE])
  /\ UNCHANGED sshown

\* Calls may be answered in any order.
StatusAnswers(k) ==
  /\ sasks' = [j \in 1..(Len(sasks) - 1) |-> IF j < k THEN sasks[j] ELSE sasks[j + 1]]
  /\ IF sasks[k].cancelled THEN UNCHANGED <<sshown, sloading>>
     ELSE /\ sshown' \in {sasks[k].cfg, "unavailable"}
          /\ sloading' = FALSE
  /\ UNCHANGED scfg

StatusNext ==
  /\ \/ \E c \in {"relay1", "relay2", "disabled"} : RelayConfigChanges(c)
     \/ \E k \in DOMAIN sasks : StatusAnswers(k)
  /\ UNCHANGED <<relayVars, discoveryVars>>

-----------------------------------------------------------------------------
PTypeOK ==
  /\ rmode \in ModesOffered /\ rfallback \in {"strict", "public"}
  /\ rrows \in Seq(Fields) /\ Len(rrows) \in 1..MaxRows
  /\ rmarks \in [Urls -> {"none", "checking", "ok", "failed"}]
  /\ {durl, dorigin} \subseteq Fields /\ dstatus \in {"idle", "ok", "failed"}
  /\ {rtoken, rtesting, dcustom, dedited, sloading} \subseteq BOOLEAN

(***************************************************************************)
(* The mark next to a relay URL is the answer of the last test of that     *)
(* very URL, however the rows were edited, removed or reordered while the  *)
(* test ran, and no row is left spinning once the test is over             *)
(* (verifyCustomRelays files answers by URL).                              *)
(***************************************************************************)
RelayMarksAreEarned ==
  \A i \in DOMAIN rrows :
    /\ RowMark(i) \in {"ok", "failed"} => rproved[rrows[i]] = RowMark(i)
    /\ RowMark(i) = "checking" => rtesting

(***************************************************************************)
(* The mark of the discovery page is that of the URL and the origin in the *)
(* fields.  A field edited while the test ran is the exception (dedited):  *)
(* the late answer marks the new text.                                     *)
(***************************************************************************)
DiscoveryMarkIsEarned ==
  dstatus # "idle" /\ ~dedited => dproved = <<durl, dorigin>>

(***************************************************************************)
(* Once it has loaded, the relay button shows the status of the            *)
(* configuration that is set, although the calls may be answered in any    *)
(* order, and while it loads a call is under way that still counts.  (What *)
(* it showed before stays on screen while it loads.)                       *)
(***************************************************************************)
RelayStatusIsCurrent ==
  /\ ~sloading => sshown \in {scfg, "unavailable"}
  /\ sloading => \E k \in DOMAIN sasks : ~sasks[k].cancelled
=============================================================================

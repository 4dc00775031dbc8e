---------------------------- MODULE ReleaseNotes -----------------------------
(***************************************************************************)
(* scripts/generate-release-notes.js: the notes of a release from the      *)
(* commits since the previous tag and from GitHub's generated notes.  The  *)
(* state is what the script reads; the notes are operators on it.  Commits *)
(* are parsed ones; scope "" is none.  Texts are names up to letter case,  *)
(* and the wording and the order of the lines are left out.                *)
(***************************************************************************)
EXTENDS Integers, Sequences, FiniteSets

CONSTANTS
  Commits,         \* [type, scope, subject, author]
  PairingSubjects, \* subjects that speak of pairing
  TestSubjects,    \* subjects that speak of tests
  Prototype,       \* the one subject that is dropped
  LengthOf(_),     \* length of a subject
  Aliases,         \* AUTHOR_LOGIN_ALIASES: login of some author names
  Owner,           \* owner of the repository
  Bodies,          \* GitHub's generated notes: [prs, new]
  MaxCommits,      \* commits since the previous tag
  MaxHighlights,   \* 6 in the script
  MaxListed        \* 8 in the script

ASSUME NotesAssumption ==
  /\ MaxHighlights \in Nat
  /\ \A c \in Commits : LengthOf(c.subject) \in Nat

VARIABLES
  nlog,            \* the commits since the previous tag, newest first
  nprior,          \* authors of the commits before it
  nbody            \* GitHub's notes; NoBody without a token or on an error

notesVars == <<nlog, nprior, nbody>>

NoBody == [prs |-> {}, new |-> {}]
NotesInit == nlog = <<>> /\ nprior = {} /\ nbody \in Bodies \cup {NoBody}

CommitLands(c) ==
  /\ Len(nlog) < MaxCommits
  /\ nlog' = <<c>> \o nlog
  /\ UNCHANGED <<nprior, nbody>>

\* The next notes start at this tag.
TagRelease ==
  /\ nlog # <<>> /\ nprior = {}
  /\ nprior' = {nlog[k].author : k \in DOMAIN nlog}
  /\ nlog' = <<>>
  /\ UNCHANGED nbody

NotesNext == TagRelease \/ \E c \in Commits : CommitLands(c)

-----------------------------------------------------------------------------
(* Which commits, in which group. *)

FeatureTypes == {"feat", "feature"}
FixTypes == {"fix", "hotfix"}
ImprovementTypes == {"refactor", "perf", "improvement"}
SkipTypes == {"chore", "ci", "build", "test", "style", "bump", "debug", "docs",
              "documentation"}

TypePriority(t) ==
  CASE t \in FeatureTypes -> 0
    [] t \in FixTypes -> 1
    [] t = "perf" -> 2
    [] t \in ImprovementTypes \ {"perf"} -> 3
    [] OTHER -> 4

NoName == ""
NormalizeScope(s) == IF s = "pair" THEN "pairing" ELSE s

NormalizeCommit(c) ==
  IF c.scope = NoName /\ c.type \in FeatureTypes /\ c.subject \in PairingSubjects
  THEN [c EXCEPT !.scope = "pairing"]
  ELSE [c EXCEPT !.scope = NormalizeScope(@)]

\* Filtering keeps the order, so a list of commits is a set of positions in nlog.
LoadCommits ==
  {k \in DOMAIN nlog : nlog[k].type \notin SkipTypes /\ nlog[k].subject # Prototype}

OfTypes(T) == {k \in LoadCommits : nlog[k].type \in T}

ScopeOf(k) == NormalizeCommit(nlog[k]).scope
ScopesOf(ks) == {ScopeOf(k) : k \in ks}
GroupByScope(ks, s) == {k \in ks : ScopeOf(k) = s}

-----------------------------------------------------------------------------
(* The bullets. *)

FirstOf(ks) == CHOOSE k \in ks : \A j \in ks : k =< j

\* The first n of S sorted by R, a set of pairs.
FirstBy(R, S, n) == {x \in S : Cardinality({y \in S : <<y, x>> \in R}) < n}

\* The first commit of each subject.
UniqueSubjects(ks) ==
  {k \in ks : \A j \in ks : j < k => nlog[j].subject # nlog[k].subject}

\* By type, then the longer subject, then by position.
SubjectOrder(ks) ==
  LET Priority(k) == TypePriority(nlog[k].type)
      Length(k) == LengthOf(nlog[k].subject)
  IN  {p \in ks \X ks :
         \/ Priority(p[1]) < Priority(p[2])
         \/ /\ Priority(p[1]) = Priority(p[2])
            /\ \/ Length(p[1]) > Length(p[2])
               \/ Length(p[1]) = Length(p[2]) /\ p[1] < p[2]}

PickRepresentativeSubjects(ks, limit) ==
  FirstBy(SubjectOrder(UniqueSubjects(ks)), UniqueSubjects(ks), limit)

\* Mutant: repeated subjects are counted as more changes.
SummaryCountsRepeats(ks, s) ==
  LET shown == PickRepresentativeSubjects(ks, 2)
  IN  [scope |-> s, shown |-> {nlog[k].subject : k \in shown},
       extra |-> Cardinality(ks) - Cardinality(shown)]

\* "**Scope** - one; two (+extra more)"
SummarizeScopeCommits(ks, s) ==
  LET u == UniqueSubjects(ks)
      shown == PickRepresentativeSubjects(u, 2)
  IN  [scope |-> s, shown |-> {nlog[k].subject : k \in shown},
       extra |-> Cardinality(u) - Cardinality(shown)]

RenderSection(ks) ==
  {SummarizeScopeCommits(GroupByScope(ks, s), s) : s \in ScopesOf(ks)}

\* By weight, then by the first commit, where the group entered the map.
GroupOrder(ks, scopes) ==
  LET Weight(s) == Cardinality(GroupByScope(ks, s))
      First(s) == FirstOf(GroupByScope(ks, s))
  IN  {p \in scopes \X scopes :
         \/ Weight(p[1]) > Weight(p[2])
         \/ Weight(p[1]) = Weight(p[2]) /\ First(p[1]) < First(p[2])}

\* The heaviest groups; "identity" is left out when there is "device".
PickHighlights(ks) ==
  LET scopes == ScopesOf(ks) \ (IF "device" \in ScopesOf(ks) THEN {"identity"} ELSE {})
  IN  {SummarizeScopeCommits(GroupByScope(ks, s), s) :
         s \in FirstBy(GroupOrder(ks, scopes), scopes, MaxHighlights)}

\* Past MaxListed only their number and that of their areas is told.
ImprovementsSection ==
  LET ks == OfTypes(ImprovementTypes)
  IN  IF Cardinality(ks) =< MaxListed
      THEN [bullets |-> RenderSection(ks), count |-> 0, areas |-> 0]
      ELSE [bullets |-> {}, count |-> Cardinality(ks), areas |-> Cardinality(ScopesOf(ks))]

\* GitHub's lines without releases and housekeeping; "style" is not skipped here.
ExtractGithubSections ==
  [prs |-> {p \in nbody.prs : p.type \notin (SkipTypes \ {"style"}) \cup {"release"}},
   new |-> nbody.new]

-----------------------------------------------------------------------------
(* The contributors. *)

\* The login of a noreply address, or the alias of the name, or none.
ResolveGithubLogin(a) ==
  IF a.noreply # NoName THEN a.noreply
  ELSE IF a.name \in DOMAIN Aliases THEN Aliases[a.name] ELSE NoName

\* The log of the previous tag can be read: without it everybody is new.
AuthorHasPriorContributions(a) ==
  \E p \in nprior :
    \/ p.email = a.email
    \/ ResolveGithubLogin(a) # NoName /\ ResolveGithubLogin(p) = ResolveGithubLogin(a)
    \/ p.name = a.name

CommitsOf(l) == {k \in DOMAIN nlog : ResolveGithubLogin(nlog[k].author) = l}

\* Skipped commits count here too.
CollectContributors ==
  ({ResolveGithubLogin(nlog[k].author) : k \in DOMAIN nlog}
     \cup {p.login : p \in nbody.prs}) \ {NoName, Owner}

Untold == <<NoName, "none">>

WorkArea(c) ==
  CASE c.type \in FixTypes -> <<c.scope, "fixes">>
    [] c.type \in FeatureTypes -> <<c.scope, "features">>
    [] c.type \notin FixTypes \cup FeatureTypes /\ (c.type = "test" \/ c.subject \in TestSubjects) ->
         <<NoName, "test coverage">>
    [] OTHER -> IF c.scope # NoName THEN <<c.scope, "improvements">> ELSE Untold

\* The first two areas of a contributor.
DescribeContributorWork(l) ==
  LET areas(ks) == {WorkArea(nlog[k]) : k \in ks} \ {Untold}
  IN  UNION {areas({k}) : k \in {k \in CommitsOf(l) :
                                   Cardinality(areas({j \in CommitsOf(l) : j =< k})) =< 2}}

\* New is who has no earlier commit, going by the newest commit of theirs.
IsNewContributor(l) ==
  /\ CommitsOf(l) # {}
  /\ ~AuthorHasPriorContributions(nlog[FirstOf(CommitsOf(l))].author)

\* How often each login is listed under "New contributors".
NewContributorLines ==
  [l \in CollectContributors \cup ExtractGithubSections.new |->
     IF l \in ExtractGithubSections.new THEN 1
     ELSE IF IsNewContributor(l) THEN 1 ELSE 0]

BuildReleaseNotes ==
  [highlights |-> PickHighlights(OfTypes(FeatureTypes)),
   changed |-> ExtractGithubSections.prs,
   fixes |-> RenderSection(OfTypes(FixTypes)),
   improvements |-> ImprovementsSection,
   new |-> NewContributorLines,
   thanks |-> [l \in CollectContributors |-> DescribeContributorWork(l)]]

-----------------------------------------------------------------------------
(***************************************************************************)
(* No fix is lost and none counted twice: each scope with a fix since the  *)
(* tag has one bullet, and what it shows and what it counts as more are    *)
(* the distinct fixes of that scope.  A feature is only missing when its   *)
(* scope is outweighed by a full list of highlights, or is identity next   *)
(* to device (groupByScope, summarizeScopeCommits, pickHighlights).        *)
(***************************************************************************)
NotesAccountForChanges ==
  LET notes == BuildReleaseNotes
      Raw(T, s) == {k \in DOMAIN nlog :
                      /\ nlog[k].type \in T /\ nlog[k].subject # Prototype
                      /\ ScopeOf(k) = s}
      Subjects(ks) == {nlog[k].subject : k \in ks}
      scopes == {ScopeOf(k) : k \in DOMAIN nlog}
      Told(bullets, s) == {b \in bullets : b.scope = s}
  IN  \A s \in scopes :
        /\ Raw(FixTypes, s) # {} =>
             /\ Cardinality(Told(notes.fixes, s)) = 1
             /\ \A b \in Told(notes.fixes, s) :
                  /\ b.shown \subseteq Subjects(Raw(FixTypes, s)) /\ b.shown # {}
                  /\ Cardinality(b.shown) + b.extra = Cardinality(Subjects(Raw(FixTypes, s)))
        /\ Raw(FeatureTypes, s) # {} /\ Told(notes.highlights, s) = {} =>
             \/ s = "identity" /\ Raw(FeatureTypes, "device") # {}
             \/ /\ Cardinality(notes.highlights) = MaxHighlights
                /\ \A b \in notes.highlights :
                     Cardinality(Raw(FeatureTypes, b.scope)) >= Cardinality(Raw(FeatureTypes, s))

(***************************************************************************)
(* Nobody is listed twice as a new contributor, although GitHub's list and *)
(* the one derived from the commits are joined, the owner is not thanked,  *)
(* and the derived list names nobody who committed under that login before *)
(* the previous tag (collectContributors, renderContributorSections).      *)
(***************************************************************************)
CreditsAreDue ==
  LET notes == BuildReleaseNotes
  IN  /\ \A l \in DOMAIN notes.new :
           /\ notes.new[l] =< 1
           /\ notes.new[l] = 1 /\ l \notin nbody.new =>
                \A p \in nprior : ResolveGithubLogin(p) # l
      /\ Owner \notin DOMAIN notes.thanks
      /\ \A l \in DOMAIN notes.thanks : Cardinality(notes.thanks[l]) =< 2

(***************************************************************************)
(* The notes tell every change once and thank whom they should (the two    *)
(* parts above).                                                           *)
(***************************************************************************)
NotesAreRight == NotesAccountForChanges /\ CreditsAreDue
=============================================================================

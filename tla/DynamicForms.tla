---------------------------- MODULE DynamicForms ----------------------------
(***************************************************************************)
(* Form templates and the submissions to them (modules/dynamic-forms, and  *)
(* the forms of the seed), for one station: those of another are not found *)
(* (404).  A template is never deleted.  Dates are modelled by whether     *)
(* they are set, questions by their ids, an answer by being given; which   *)
(* template has the title that the seed looks for is left open.            *)
(***************************************************************************)
EXTENDS Naturals, FiniteSets

CONSTANTS Editors,       \* requests that update a template or submit to one
          Templates,     \* rows of dynamic_form_templates
          Questions,     \* ids of questions
          Required,      \* the ones that must be answered
          SeedForm,      \* the form the seed owns: [status, questions]
          MaxVersion     \* bound: the versions of a template

ASSUME FormAssumption ==
  /\ "seed" \notin Editors /\ Required \subseteq Questions
  /\ SeedForm.status \in {"DRAFT", "PUBLISHED"} /\ SeedForm.questions \subseteq Questions
  /\ MaxVersion \in Nat \ {0}

VARIABLES template,     \* the row, or NoTemplate
          submissions,  \* [to, answers]
          editing,      \* what each request, and the seed, is at and has read
          named,        \* history: the questions each version of a template named
          overlaps,     \* history: the requests whose template was written since
          disturbed     \* history: templates that such a request, or the seed, wrote

formVars == <<template, submissions, editing, named, overlaps, disturbed>>

NoTemplate == [status |-> "none"]
Statuses == {"DRAFT", "PUBLISHED", "ARCHIVED"}
Done == [at |-> "done"]
Seed == "seed"

FormInit ==
  /\ template = [t \in Templates |-> NoTemplate]
  /\ submissions = {}
  /\ editing = [e \in Editors \cup {Seed} |-> Done]
  /\ named = [t \in Templates |-> {}]
  /\ overlaps = {}
  /\ disturbed = {}

Written(t) == template[t] # NoTemplate
Edits(e, record) == editing' = [editing EXCEPT ![e] = record]

Readers(t) == {e \in Editors : editing[e].at = "update" /\ editing[e].to = t}

\* What a client may ask for becomes PUBLISHED or DRAFT, never ARCHIVED.
Normalized(asked) == IF asked = "PUBLISHED" THEN "PUBLISHED" ELSE "DRAFT"

\* What may be filled in, and what the list of templates leaves out unasked.
IsPublished(t) == Written(t) /\ template[t].status = "PUBLISHED" /\ ~template[t].archived
IsListed(t, includeArchived) == Written(t) /\ (includeArchived \/ ~template[t].archived)

-----------------------------------------------------------------------------
(* Templates *)

New(status, questions) ==
  [status |-> status, questions |-> questions, version |-> 1,
   published |-> status = "PUBLISHED", archived |-> FALSE]

InsertForm(t, row) ==
  /\ ~Written(t)
  /\ template' = [template EXCEPT ![t] = row]
  /\ named' = [named EXCEPT ![t] = {<<1, row.questions>>}]

CreateTemplate ==
  /\ \E t \in Templates, asked \in Statuses, questions \in SUBSET Questions :
       InsertForm(t, New(Normalized(asked), questions))
  /\ UNCHANGED <<submissions, editing, overlaps, disturbed>>

Existing(t) ==
  [field \in {"status", "published", "version"} |-> template[t][field]]

ReadForUpdate(e) ==
  /\ editing[e] = Done
  /\ \E t \in Templates, asked \in Statuses, questions \in SUBSET Questions :
       /\ Written(t)
       /\ Edits(e, [at |-> "update", to |-> t, existing |-> Existing(t),
                    status |-> Normalized(asked), questions |-> questions])
  /\ UNCHANGED <<template, submissions, named, overlaps, disturbed>>

\* Mutant: only a draft is given the date.
PublishesDraft(e) == editing[e].status = "PUBLISHED" /\ editing[e].existing.status = "DRAFT"

ShouldSetPublishedAt(e) ==
  /\ editing[e].status = "PUBLISHED"
  /\ editing[e].existing.status # "PUBLISHED" \/ ~editing[e].existing.published

\* Mutant: the version is the one that was read.
SameVersion(e) == editing[e].existing.version

NextVersion(e) == editing[e].existing.version + 1

\* The row is written by its id, whatever it has become since it was read.
WriteUpdate(e) ==
  LET t == editing[e].to IN
  /\ editing[e].at = "update"
  /\ NextVersion(e) <= MaxVersion
  /\ template' = [template EXCEPT ![t] =
       [status |-> editing[e].status, questions |-> editing[e].questions,
        version |-> NextVersion(e),
        published |-> ShouldSetPublishedAt(e) \/ editing[e].existing.published,
        archived |-> FALSE]]
  /\ named' = [named EXCEPT ![t] = @ \cup {<<NextVersion(e), editing[e].questions>>}]
  /\ overlaps' = (overlaps \cup Readers(t)) \ {e}
  /\ disturbed' = disturbed \cup {u \in {t} : e \in overlaps}
  /\ Edits(e, Done)
  /\ UNCHANGED submissions

ArchiveTemplate ==
  /\ \E t \in Templates :
       /\ Written(t)
       /\ template' = [template EXCEPT ![t].status = "ARCHIVED", ![t].archived = TRUE]
       /\ overlaps' = overlaps \cup Readers(t)
  /\ UNCHANGED <<submissions, editing, named, disturbed>>

-----------------------------------------------------------------------------
(* Submissions *)

\* The template and the access to the station are read together; the access, of
\* another component, may be missing or withdrawn, which ends the request.
ReadForSubmission(e) ==
  /\ editing[e] = Done
  /\ \E t \in Templates, answers \in SUBSET Questions :
       /\ IsPublished(t)
       /\ template[t].questions \cap Required \subseteq answers
       /\ Edits(e, [at |-> "submit", to |-> t, answers |-> answers])
  /\ UNCHANGED <<template, submissions, named, overlaps, disturbed>>

WriteSubmission(e) ==
  /\ editing[e].at = "submit"
  /\ submissions' = submissions \cup {[to |-> editing[e].to, answers |-> editing[e].answers]}
  /\ Edits(e, Done)
  /\ UNCHANGED <<template, named, overlaps, disturbed>>

Drop(e) ==
  /\ editing[e] # Done
  /\ overlaps' = overlaps \ {e}
  /\ Edits(e, Done)
  /\ UNCHANGED <<template, submissions, named, disturbed>>

-----------------------------------------------------------------------------
(* The seed finds its form by the title. *)

SeedFinds ==
  /\ editing[Seed] = Done
  /\ \E t \in Templates :
       Edits(Seed, [at |-> IF Written(t) THEN "update" ELSE "create", to |-> t])
  /\ UNCHANGED <<template, submissions, named, overlaps, disturbed>>

\* The version stays, and with it what it names.
SeedUpdates ==
  LET t == editing[Seed].to IN
  /\ editing[Seed].at = "update"
  /\ template' = [template EXCEPT ![t] =
       [New(SeedForm.status, SeedForm.questions) EXCEPT !.version = template[t].version]]
  /\ overlaps' = overlaps \cup Readers(t)
  /\ disturbed' = disturbed \cup {t}
  /\ Edits(Seed, [at |-> "count", to |-> t])
  /\ UNCHANGED <<submissions, named>>

SeedCreates ==
  /\ editing[Seed].at = "create"
  /\ \E t \in Templates :
       /\ InsertForm(t, New(SeedForm.status, SeedForm.questions))
       /\ Edits(Seed, [at |-> "count", to |-> t])
  /\ UNCHANGED <<submissions, overlaps, disturbed>>

\* Its own answers are stored with a published form that nobody has answered.
SeedSubmits ==
  LET t == editing[Seed].to IN
  /\ editing[Seed].at = "count"
  /\ submissions' = submissions \cup
       {s \in {[to |-> t, answers |-> SeedForm.questions]} :
          SeedForm.status = "PUBLISHED" /\ \A other \in submissions : other.to # t}
  /\ Edits(Seed, Done)
  /\ UNCHANGED <<template, named, overlaps, disturbed>>

-----------------------------------------------------------------------------
EditorStep(e) ==
  \/ ReadForUpdate(e) \/ WriteUpdate(e)
  \/ ReadForSubmission(e) \/ WriteSubmission(e) \/ Drop(e)

FormNext ==
  \/ \E e \in Editors : EditorStep(e)
  \/ CreateTemplate \/ ArchiveTemplate \/ Drop(Seed)
  \/ SeedFinds \/ SeedUpdates \/ SeedCreates \/ SeedSubmits

FormSpec == FormInit /\ [][FormNext]_formVars

-----------------------------------------------------------------------------
(* Properties *)

\* Whoever wrote a template last, its dates agree with its status: what can be filled
\* in has a date of publication, what is archived, and only that, is left out of the
\* list; and a form that has been answered keeps its date through every draft,
\* archive and return, unless two updates overlapped or the seed wrote it.
DatesTell ==
  /\ \A t \in Templates : Written(t) =>
       /\ template[t].status = "PUBLISHED" => template[t].published
       /\ IsListed(t, FALSE) <=> template[t].status # "ARCHIVED"
  /\ \A s \in submissions : s.to \notin disturbed => template[s.to].published

\* A version of a template names one list of questions, unless two updates overlapped
\* or the seed wrote the template, which keeps the version.
VersionNamesQuestions ==
  \A t \in Templates \ disturbed :
    \A a, b \in named[t] \cup {<<template[t].version, template[t].questions>> : u \in {v \in {t} : Written(v)}} :
      a[1] = b[1] => a[2] = b[2]
=============================================================================

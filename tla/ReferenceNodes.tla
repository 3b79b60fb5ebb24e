--------------------------- MODULE ReferenceNodes ---------------------------
(***************************************************************************)
(* The eip7870-reference-nodes command: the start-up command of every      *)
(* execution client is merged from its Helm chart, its file in the         *)
(* platform repository and a feature file that all clients share; the      *)
(* commands are then uploaded as one object.                               *)
(*                                                                         *)
(* An argument is a flag and a value.  Environment variables, which only   *)
(* the feature file has, are left out, and so are display names.           *)
(***************************************************************************)
EXTENDS HelmTemplate

CONSTANTS
  Clients,         \* the execution clients of the configuration
  Charts,          \* per client: the templates its chart may have
  ClientFiles,     \* what a client's platform file may say: [args, image]
  FeatureFiles     \* what the feature file may say: [args, image] per client

Unset == "unset"                 \* the empty string
ImageType == [{"repository", "tag"} -> STRING \union {Unset}]
OverlayType == [args : Seq([flag : STRING, value : STRING]), image : ImageType]

ASSUME ReferenceAssumption ==
  /\ \A c \in Clients : Charts[c] \subseteq Seq(LineType)
  /\ ClientFiles \subseteq OverlayType
  /\ FeatureFiles \subseteq [Clients -> OverlayType]

VARIABLES
  step,            \* "feature", "chart", "overlay", "upload", "uploading", "returned"
  outcome,         \* what Generate returns
  ctxDone,         \* a signal has cancelled the context
  feature,         \* the feature file
  todo,            \* clients left to process
  client,          \* the client in progress, its template and base arguments
  chart, base,
  result,          \* the commands so far, by client
  object,          \* the object in the bucket
  answers,         \* per client in result: what was fetched for it (history)
  failures         \* the requests that failed, and whether after the signal (history)

clientVars == <<client, chart, base>>
vars == <<step, outcome, ctxDone, feature, todo, clientVars, result, object, answers, failures>>

NoCommands == [c \in {} |-> <<>>]
NoObject == [uploaded |-> FALSE]
NoClient == "none"

NoImage == [repository |-> Unset, tag |-> Unset]
EmptyOverlay == [args |-> <<>>, image |-> NoImage]

\* A feature file that cannot be fetched or parsed is like one that has nothing
\* for any client.
NoFeature == [c \in Clients |-> EmptyOverlay]

Init ==
  /\ step = "feature" /\ outcome = "none"
  /\ ctxDone = FALSE
  /\ feature = NoFeature
  /\ todo = Clients
  /\ client = NoClient /\ chart = <<>> /\ base = <<>>
  /\ result = NoCommands
  /\ object = NoObject
  /\ answers = NoCommands
  /\ failures = {}

-----------------------------------------------------------------------------
(* CommandBuilder.                                                         *)

Flags(args) == {args[i].flag : i \in DOMAIN args}

\* The first argument of every flag that no later source has.
Keep(args, overridden) ==
  FoldLeft(LAMBDA kept, arg : IF arg.flag \in overridden \union Flags(kept)
                              THEN kept ELSE Append(kept, arg),
           <<>>, args)

Mut_FeatureOverridesBaseOnly(ofBase, ofClient, ofFeature) ==
  [base           |-> Keep(ofBase, Flags(ofClient) \union Flags(ofFeature)),
   clientSpecific |-> Keep(ofClient, {}),
   feature7870    |-> Keep(ofFeature, {})]

DeduplicateArgs(ofBase, ofClient, ofFeature) ==
  [base           |-> Keep(ofBase, Flags(ofClient) \union Flags(ofFeature)),
   clientSpecific |-> Keep(ofClient, Flags(ofFeature)),
   feature7870    |-> Keep(ofFeature, {})]

\* The feature may override the repository, the tag, or both.
Override(image, by) == [part \in DOMAIN image |-> IF by[part] # Unset THEN by[part] ELSE image[part]]

BuildCommand(ofBase, ofClient, ofFeature) ==
  LET breakdown == DeduplicateArgs(ofBase, ofClient.args, ofFeature.args)
  IN  [image     |-> Override(ofClient.image, ofFeature.image),
       breakdown |-> breakdown,
       startup   |-> breakdown.base \o breakdown.clientSpecific \o breakdown.feature7870]

-----------------------------------------------------------------------------
(* Service.Generate.                                                       *)

Fails(request) == failures' = failures \union {[of |-> request, cancelled |-> ctxDone]}

\* Once, for all clients; without it the commands have no feature arguments.
FetchFeatureFile ==
  /\ step = "feature"
  /\ step' = "chart"
  /\ \/ ~ctxDone /\ feature' \in FeatureFiles /\ UNCHANGED failures
     \/ Fails("feature") /\ UNCHANGED feature
  /\ UNCHANGED <<outcome, ctxDone, todo, clientVars, result, object, answers>>

\* The configured order is any.
FetchHelmChart(c) ==
  /\ step = "chart" /\ c \in todo /\ ~ctxDone
  /\ \E template \in Charts[c] : chart' = template /\ base' = RenderTemplate(template)
  /\ client' = c
  /\ todo' = todo \ {c}
  /\ step' = "overlay"
  /\ UNCHANGED <<outcome, ctxDone, feature, result, object, answers, failures>>

\* A chart that cannot be fetched, or has no template: the client is left out.
SkipClient(c) ==
  /\ step = "chart" /\ c \in todo
  /\ Fails(c)
  /\ todo' = todo \ {c}
  /\ UNCHANGED <<step, outcome, ctxDone, feature, clientVars, result, object, answers>>

With(f, c, value) == [d \in DOMAIN f \union {c} |-> IF d = c THEN value ELSE f[d]]

\* The client's file is there, or an empty overlay is used in its place.
FetchClientConfig ==
  /\ step = "overlay"
  /\ \E overlay \in ClientFiles \union {EmptyOverlay} :
       /\ \/ ~ctxDone /\ overlay \in ClientFiles /\ UNCHANGED failures
          \/ overlay = EmptyOverlay /\ Fails(client)
       /\ result' = With(result, client, BuildCommand(base, overlay, feature[client]))
       /\ answers' = With(answers, client, [base |-> base, client |-> overlay])
  /\ client' = NoClient /\ chart' = <<>> /\ base' = <<>>
  /\ step' = "chart"
  /\ UNCHANGED <<outcome, ctxDone, feature, todo, object>>

Returns(value) == step' = "returned" /\ outcome' = value

NothingProcessed ==
  /\ step = "chart" /\ todo = {} /\ DOMAIN result = {}
  /\ Returns("error")
  /\ UNCHANGED <<ctxDone, feature, todo, clientVars, result, object, answers, failures>>

AllProcessed ==
  /\ step = "chart" /\ todo = {} /\ DOMAIN result # {}
  /\ step' = "upload"
  /\ UNCHANGED <<outcome, ctxDone, feature, todo, clientVars, result, object, answers, failures>>

Mut_OwnContext ==
  /\ step = "upload"
  /\ step' = "uploading"
  /\ UNCHANGED <<outcome, ctxDone, feature, todo, clientVars, result, object, answers, failures>>

\* A request is not sent under a context that is cancelled already.
SendUpload ==
  /\ step = "upload" /\ ~ctxDone
  /\ step' = "uploading"
  /\ UNCHANGED <<outcome, ctxDone, feature, todo, clientVars, result, object, answers, failures>>

Stored == object' = [uploaded |-> TRUE, nodes |-> result]

UploadSucceeds ==
  /\ step = "uploading"
  /\ Stored
  /\ Returns("success")
  /\ UNCHANGED <<ctxDone, feature, todo, clientVars, result, answers, failures>>

\* The object may have been stored all the same.
UploadFails ==
  /\ \/ step = "upload" /\ ctxDone /\ UNCHANGED object
     \/ step = "uploading" /\ (Stored \/ UNCHANGED object)
  /\ Returns("error")
  /\ UNCHANGED <<ctxDone, feature, todo, clientVars, result, answers, failures>>

Signal ==
  /\ step # "returned" /\ ~ctxDone
  /\ ctxDone' = TRUE
  /\ UNCHANGED <<step, outcome, feature, todo, clientVars, result, object, answers, failures>>

-----------------------------------------------------------------------------
GenerateNext ==
  \/ FetchFeatureFile \/ FetchClientConfig
  \/ \E c \in Clients : FetchHelmChart(c) \/ SkipClient(c)
  \/ NothingProcessed \/ AllProcessed
  \/ SendUpload \/ UploadSucceeds \/ UploadFails

Next == GenerateNext \/ Signal

Spec == Init /\ [][Next]_vars

-----------------------------------------------------------------------------
TypeOK ==
  /\ step \in {"feature", "chart", "overlay", "upload", "uploading", "returned"}
  /\ outcome \in {"none", "error", "success"}
  /\ ctxDone \in BOOLEAN
  /\ todo \in SUBSET Clients
  /\ step = "overlay" => client \in Clients
  /\ DOMAIN result \in SUBSET Clients /\ DOMAIN answers = DOMAIN result
  /\ object \in {NoObject, [uploaded |-> TRUE, nodes |-> result]}
  /\ failures \in SUBSET [of : Clients \union {"feature"}, cancelled : BOOLEAN]

\* The base arguments are those that Helm renders from the template under the
\* assumptions of renderTemplate, for every layout that it is made for: markers
\* and ends that share lines with arguments do not unbalance the stack.
RenderIsExact ==
  step = "overlay" /\ Parses(chart) /\ Supported(chart) => base = HelmAfter(chart).args

\* A published command has every flag of the three sources once, with a value
\* that the strongest source gives it, feature over client over base; likewise
\* the parts of the image.  A client whose own file failed gets nothing of another
\* client's.  Which of several values within one source stays is left open: the
\* code keeps the first one, and command_builder.go:18 asks for the later ones.
Strongest(sources, flag) ==
  sources[CHOOSE i \in DOMAIN sources :
            /\ flag \in Flags(sources[i])
            /\ \A j \in DOMAIN sources : flag \in Flags(sources[j]) => j <= i]

IsMerge(command, sources) ==
  LET args == command.startup
  IN  /\ Flags(args) = UNION {Flags(sources[i]) : i \in DOMAIN sources}
      /\ \A i, j \in DOMAIN args : args[i].flag = args[j].flag => i = j
      /\ \A i \in DOMAIN args : args[i] \in ToSet(Strongest(sources, args[i].flag))

CommandsAreMerges ==
  object.uploaded => \A c \in DOMAIN object.nodes :
    LET command == object.nodes[c]
        own == answers[c].client
    IN  /\ IsMerge(command, <<answers[c].base, own.args, feature[c].args>>)
        /\ \A part \in DOMAIN NoImage :
             command.image[part] = IF feature[c].image[part] # Unset
                                   THEN feature[c].image[part] ELSE own.image[part]

\* What the object lacks, compared with what the repositories hold, is only what
\* requests failed to fetch while nothing was cancelled: a signal in the middle
\* of the run leads to an error and leaves the object of the previous run alone.
\* Success means that every client is in the object whose chart did not fail.
LossesAreFailures ==
  /\ object.uploaded =>
       /\ \A f \in failures : ~f.cancelled
       /\ \A c \in Clients \ DOMAIN object.nodes : \E f \in failures : f.of = c
  /\ outcome = "success" => object.uploaded /\ DOMAIN object.nodes # {}
=============================================================================

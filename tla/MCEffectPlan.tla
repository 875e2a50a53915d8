---------------------------- MODULE MCEffectPlan ----------------------------
\* The plan of one turn, and the conversation that its turns belong to.  They share no state,
\* so a behaviour is about one of them, chosen at the start.
EXTENDS EffectPlan, TLC

CONSTANTS Scan, MaxMessages, MaxSummary, MaxActive, MaxEffects, MaxContext, Talks

VARIABLES part, user, chat, log, quota

cvars == <<user, chat, log, quota>>

C == INSTANCE Conversation

\* Call ids are interchangeable.
CallSymmetry == Permutations(CallIds)

Screen(model, res, selected) == [model |-> model, res |-> res, selected |-> selected]

Blank == Screen(FALSE, 0, <<>>)

Talk(messages, screens, t, o, c, r) ==
    [messages |-> messages, screens |-> screens, turns |-> t, open |-> o, changes |-> c,
     retries |-> r]

Remembering == Talk({"plain"}, {Screen(TRUE, 0, <<>>), Screen(TRUE, 1, <<2>>)}, 4, 1, 0, 0)

MCTalks ==
    {Remembering,
     Talk({"plain"}, {Blank, Screen(TRUE, 0, <<2, 1>>)}, 3, 2, 0, 1),
     Talk({"asks", "allows", "forbids"}, {Blank}, 3, 1, 0, 0),
     Talk({"plain", "asks", "allows", "forbids"}, {Blank}, 2, 2, 1, 0),
     Talk({"plain"}, {Blank}, 2, 2, 3, 0)}

MCInit ==
    /\ part \in {"plan", "conversation"}
    /\ Init /\ C!Init
    /\ part # "conversation" => quota = Remembering

MCNext ==
    \/ part = "plan" /\ Next /\ UNCHANGED <<part, cvars>>
    \/ part = "conversation" /\ C!Next /\ UNCHANGED <<part, vars>>

MCSpec == MCInit /\ [][MCNext]_<<part, vars, cvars>>

TurnKnowsConversation == C!TurnKnowsConversation
=============================================================================

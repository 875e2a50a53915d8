------------------------------- MODULE Stores -------------------------------
\* The workspaces of addon sources beside company knowledge with its attachments and
\* evidence: what a turn keeps outside the tables of Odoo.  They share no state.
EXTENDS SourceWorkspace

CONSTANTS Sources, Attachments, Keys, Loads, FetchLimit, MaxRefs, MaxExcerpts

VARIABLES kb, atts, turns, file, snap, ev, left

kvars == <<kb, atts, turns, file, snap, ev, left>>

K == INSTANCE Knowledge

\* What a decision gets as current evidence can be quoted (Knowledge).
EvidenceHolds == K!EvidenceHolds

\* A file bound to a turn stays with it and is used once (Knowledge).
AttachmentUsedOnce == K!AttachmentUsedOnce
=============================================================================

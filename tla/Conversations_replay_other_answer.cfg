SPECIFICATION ConversationsSpec
CONSTANTS
 Callers = {c1, c2}
 TalkRuns = {r1, r2}
 Talks = {t1}
 TalkKeys = {k1}
 NoKey = NoKey
 NoTalk = NoTalk
 MaxReplayed = 4
 MaxCalls = 0
INVARIANT ReplayReturnsOwnAnswer
CHECK_DEADLOCK FALSE

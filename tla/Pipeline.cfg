SPECIFICATION Spec
CONSTANTS
    Signatures <- MCSignatures
    Category <- MCCategory
    Weight <- MCWeight
    Conversations <- MCConversations
    Policies <- MCPolicies
    Replies <- MCReplies
    Width <- MCWidth
    Toxic <- MCToxic
INVARIANTS
    NothingRawUpstream
    PlaygroundForetells
    PassedReplyWasJudged
    InjectionAsDocumented
CHECK_DEADLOCK FALSE

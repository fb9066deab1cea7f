SPECIFICATION FairSpec
INVARIANTS ClientIsOwned CallbackHasClient
PROPERTIES ReadyFollows

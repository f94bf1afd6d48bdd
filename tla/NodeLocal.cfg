SPECIFICATION FairSpec
CONSTANTS
    user = user
    guest = guest
    team = team
    Entity = {user, guest}
    Group = {team}
    Device = {"device"}
    Token = {"t1"}
    Blob = {"blob"}
    Culture = {"own"}
    Key = {"key1", "key2"}
    Configured = {team}
    OldFiles <- OldVersions
    MaxCrashes = 2
    Concurrent = FALSE
INVARIANTS
    TypeOK
    
    ServesMembers
PROPERTIES
    MembersKept
    IdentityKept
    RevocationFinal
    StartFailsDamaged
    StartsAgain

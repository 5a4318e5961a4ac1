SPECIFICATION KeySpec
CONSTANTS
    Objects = {o1, o2, o3}
    SshKeys = {k1, k2, k3, k4}
    ServerKeys = {rsa, ed25519}
    NULL = NULL
INVARIANT Sha1IsOfKey

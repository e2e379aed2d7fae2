SPECIFICATION FairSpec
CONSTANTS
    orders = orders
    billing = billing
    ordersTopic = ordersTopic
    billingTopic = billingTopic
    Contracts = {orders, billing}
    MaxVersions = 4
    Topics = {ordersTopic, billingTopic}
    Sessions = {s1, s2}
    ContractOf <- MCContractOf
    TopicOf <- MCTopicOf
    CreateStatuses = {"DRAFT"}
    StrictCallers = TRUE
    NoVersion = NoVersion
    NoSession = NoSession
    NoContract = NoContract
INVARIANTS
    TypeOK
    NoActiveGap
PROPERTIES
    SupersedesWhatItSaw
    SoloActivationIsExclusive
    ServesLikeControlPlane
    CallsReturn

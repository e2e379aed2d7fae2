SPECIFICATION Spec
CONSTANTS
    amount = amount
    c1 = c1
    team = team
    Names = {amount}
    Types = {"int", "long", "string"}
    Promotions <- MCPromotions
    NoType = "none"
    Requests = {r1, r2}
    Proposals <- MCRaceProposals
    MaxVersions = 3
    Consumers = {c1}
    Teams = {team}
    NoTeam = NoTeam
    Unseen = Unseen
    NoProposal = NoProposal
PROPERTIES
    BreakingNeedsApproval

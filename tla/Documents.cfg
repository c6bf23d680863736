SPECIFICATION FormsSpec
CONSTANTS
  Request = {q1, q2}
  Null = Null
  RuleRow <- MCRuleRow
  TemplateRow <- MCTemplateRow
  TypeRow <- MCTypeRow
INVARIANT FormsKeepDocuments
